---------------------------- MODULE Spec2Model ----------------------------
(***************************************************************************)
(* A model of monocr-onnx (rust/src): the line segmenter (segmenter.rs),   *)
(* the page / batch pipeline and the CTC greedy decoder (monocr.rs) and    *)
(* the accuracy scorer (utils.rs).                                         *)
(*                                                                         *)
(* Conventions.  Rows and columns are numbered from 0 as in the source; a  *)
(* TLA+ sequence s holds element i of a Rust vector at s[i + 1].  An        *)
(* Option<u32> is the empty sequence (None) or a one-element sequence      *)
(* (Some).  f32 values are modelled as exact rationals [num, den]; the     *)
(* rounding of f32 arithmetic is not modelled.                             *)
(***************************************************************************)
EXTENDS Integers, Sequences, FiniteSets, TLC

VARIABLES
    \* LineSegmenter (a field of MonOcr, or on its own in SpecSegment)
    min_line_height,  \* LineSegmenter.min_line_height
    smooth_window,    \* LineSegmenter.smooth_window
    \* LineSegmenter::segment, one call row by row (SpecSegment)
    seg_page,         \* the image file behind image_path
    seg_pc,           \* position in segment: "open", "scan", "last", "done"
    smoothed_hist,    \* smoothed_hist
    gap_threshold,    \* gap_threshold
    seg_y,            \* y of the row loop
    seg_start,        \* start: Option<u32>
    seg_results,      \* results: Vec<LineSegment>
    seg_ret,          \* what segment returned: "none", "ok", "err"
    seg_log,          \* the calls this LineSegmenter has served before
    \* MonOcr::decode_owned, one call timestep by timestep (SpecDecode)
    charset,          \* MonOcr.charset
    dec_data,         \* data: the flattened output tensor
    dec_shape,        \* shape: <<batch, sequence_length, num_classes>>
    dec_pc,           \* position in decode_owned: "loop", "done"
    dec_t,            \* t of the timestep loop
    decoded,          \* decoded
    prev_idx,         \* prev_idx
    \* calculate_accuracy, one call row by row of the table (SpecScore)
    predicted,        \* predicted
    ground_truth,     \* ground_truth
    acc_pc,           \* position in calculate_accuracy: "call", "rows", "done"
    lev_j,            \* levenshtein: j of the row loop
    matrix_row,       \* levenshtein: matrix[j - 1], the last row filled
    accuracy,         \* the value returned, in hundredths of a percent
    \* MonOcr, one call of its API (Spec)
    op,               \* the method called
    paths,            \* the files behind the paths (or PDF pages) passed
    pc,               \* position in the call
    page_i,           \* pages completed by the loop of read_images / read_pdf
    lines,            \* predict_page: lines, as returned by segment
    line_j,           \* predict_page: lines consumed by the loop
    page_results,     \* predict_page: results
    page_texts,       \* read_images: results / read_pdf: pages
    ret,              \* the value returned to the caller
    history,          \* what the call has done so far: the calls of segment
                      \* and of the inference session, in order
    \* MonOcr::preprocess, one call row by row of the tensor (SpecPreprocess)
    pre_image,        \* image: the dimensions of the line image
    pre_pc,           \* position in preprocess: "call", "rows", "done"
    new_width,        \* new_width
    resized,          \* resized
    pre_y,            \* y of the row loop
    tensor_row,       \* tensor[[0, 0, y - 1, ..]], the last row written
    \* ModelManager::get_model_path, call after call (SpecModel)
    model_file,       \* the file at model_path
    mgr_pc,           \* position in get_model_path / download_model
    mgr_ret,          \* what the calls ended with, in order: "ok", "err", or
                      \* "none" for a call that was stopped
    mgr_calls,        \* the calls begun
    mgr_failed        \* the last download begun has failed or was interrupted

cfgVars == <<min_line_height, smooth_window>>

segVars == <<seg_page, seg_pc, smoothed_hist, gap_threshold, seg_y, seg_start,
             seg_results, seg_ret, seg_log>>

decVars == <<dec_data, dec_shape, dec_pc, dec_t, decoded, prev_idx>>

accVars == <<predicted, ground_truth, acc_pc, lev_j, matrix_row, accuracy>>

ocrVars == <<op, paths, pc, page_i, lines, line_j, page_results, page_texts, ret,
             history>>

preVars == <<pre_image, pre_pc, new_width, resized, pre_y, tensor_row>>

mgrVars == <<model_file, mgr_pc, mgr_ret, mgr_calls, mgr_failed>>

vars == <<cfgVars, segVars, charset, decVars, accVars, ocrVars, preVars, mgrVars>>

-----------------------------------------------------------------------------
(* Bounds of the model *)

\* width of every page image, in pixels
PageWidth == 30
\* largest page height, in rows
MaxHeight == 6
\* largest min_line_height a segmenter is built with
MaxMinLineHeight == 2
\* largest smooth_window a segmenter is built with
MaxSmoothWindow == 3

-----------------------------------------------------------------------------
(* Page images *)

\* The gray value of column x in a row of the given kind.  A "blank" row has
\* no ink (its darkest pixel is 128), a "sparse" row has one ink pixel (127,
\* at column 10) and a "dense" row has ink in all columns but the first and
\* the last.
RowPixel(kind, w, x) ==
    CASE kind = "dense"  -> IF x >= 1 /\ x <= w - 2 THEN (IF x % 2 = 0 THEN 0 ELSE 127) ELSE 255
      [] kind = "sparse" -> IF x = 10 THEN 127 ELSE (IF x % 2 = 0 THEN 255 ELSE 128)
      [] OTHER           -> IF x % 2 = 0 THEN 255 ELSE 128

RowKinds == {"blank", "sparse", "dense"}

\* All sequences over S of length at most n
SeqsUpTo(S, n) == UNION {[1..k -> S] : k \in 0..n}

\* A decodable page file: a gray image of PageWidth columns
Pages == [decodable : {TRUE}, w : {PageWidth}, rows : SeqsUpTo(RowKinds, MaxHeight)]

\* A file image::open cannot decode
Undecodable == [decodable |-> FALSE, w |-> 0, rows |-> <<>>]

\* GrayImage::dimensions
Width(img) == img.w
Height(img) == Len(img.rows)

\* GrayImage::get_pixel(x, y)[0]; a cropped image keeps its source rows and
\* the column x0 its column 0 came from
get_pixel(img, x, y) ==
    RowPixel(img.rows[y + 1], img.srcw, img.x0 + x)

\* img.to_luma8() of a decoded page
to_luma8(page) == [w |-> page.w, rows |-> page.rows, srcw |-> page.w, x0 |-> 0]

-----------------------------------------------------------------------------
Min(a, b) == IF a < b THEN a ELSE b
Max(a, b) == IF a > b THEN a ELSE b

(* f32 values and arithmetic: a value is m * 2^e with m = 0, or m a
   significand of F32Bits bits; sums, quotients and products are rounded to
   the nearest such value, ties to the even significand.  The values are
   >= 0, but for the differences, which carry a sign; none is subnormal or
   overflows. *)

\* the significand of an f32, the implicit bit included
F32Bits == 24
F32Top == 2^F32Bits
F32Low == 2^(F32Bits - 1)

F32Zero == [m |-> 0, e |-> 0]

\* the literal 0.05 as an f32: 13421773 * 2^-28
F32Literal005 == [m |-> 13421773, e |-> -28]

\* the number of bits of q, 0 < q < 2^31
BitLen(q) == CHOOSE len \in 1..31 : 2^(len - 1) <= q /\ (len = 31 \/ q < 2^len)

\* the f32 of significand mant and exponent e after rounding: rest (below
\* 2 * half) is what lies under the last place, sticky tells that more lies
\* under rest
F32Rounded(mant, e, rest, half, sticky) ==
    LET up == rest > half \/ (rest = half /\ (sticky \/ mant % 2 = 1))
        m1 == IF up THEN mant + 1 ELSE mant
    IN  IF m1 = F32Top THEN [m |-> F32Low, e |-> e + 1] ELSE [m |-> m1, e |-> e]

\* "n as f32", n < 2^24 (exact)
f32_from(n) ==
    IF n = 0 THEN F32Zero
    ELSE LET k == F32Bits - BitLen(n)
         IN  [m |-> n * 2^k, e |-> -k]

\* a > b
f32_gt(a, b) ==
    IF a.m = 0 THEN FALSE
    ELSE IF b.m = 0 THEN TRUE
    ELSE a.e > b.e \/ (a.e = b.e /\ a.m > b.m)

\* a + b: three more places are kept under the last one, and what the
\* smaller operand loses in the alignment is the sticky bit
f32_add(a, b) ==
    IF a.m = 0 THEN b
    ELSE IF b.m = 0 THEN a
    ELSE LET big == IF f32_gt(b, a) THEN b ELSE a
             small == IF f32_gt(b, a) THEN a ELSE b
             d == Min(big.e - small.e, F32Bits + 3)
             total == big.m * 8 + (small.m * 8) \div 2^d
             sticky == (small.m * 8) % 2^d # 0
         IN  IF total >= 2^(F32Bits + 3)
             THEN F32Rounded(total \div 16, big.e + 1, total % 16, 8, sticky)
             ELSE F32Rounded(total \div 8, big.e, total % 8, 4, sticky)

\* a / (n as f32) for a count 0 < n < 32: the quotient of the significand,
\* taken with seven more places, and its remainder as the sticky bit
f32_div(a, n) ==
    IF a.m = 0 THEN F32Zero
    ELSE LET quot == (a.m * 128) \div n
             shift == BitLen(quot) - F32Bits
         IN  F32Rounded(quot \div 2^shift, a.e - 7 + shift, quot % 2^shift,
                        2^(shift - 1), (a.m * 128) % n # 0)

\* a * b: the product of the two significands as high * 2^24 + low, from
\* their halves of 12 bits
f32_mul(a, b) ==
    IF a.m = 0 \/ b.m = 0 THEN F32Zero
    ELSE LET ah == a.m \div 4096
             al == a.m % 4096
             bh == b.m \div 4096
             bl == b.m % 4096
             cross == ah * bl + al * bh
             low2 == al * bl + (cross % 4096) * 4096
             high == ah * bh + cross \div 4096 + low2 \div F32Top
             low == low2 % F32Top
         IN  IF high >= F32Low
             THEN F32Rounded(high, a.e + b.e + F32Bits, low, F32Low, FALSE)
             ELSE F32Rounded(2 * high + low \div F32Low, a.e + b.e + F32Bits - 1,
                             low % F32Low, F32Low \div 2, FALSE)

\* (num as f32) / (den as f32) for 0 <= num < 2048 and 0 < den < 2048: the
\* quotient by long division in two steps, to 30 places, and the last
\* remainder as the sticky bit
f32_quot(num, den) ==
    IF num = 0 THEN F32Zero
    ELSE LET k1 == 30 - BitLen(num)
             q1 == (num * 2^k1) \div den
             r1 == (num * 2^k1) % den
             k2 == 30 - BitLen(q1)
             quot == q1 * 2^k2 + (r1 * 2^k2) \div den
             shift == BitLen(quot) - F32Bits
         IN  F32Rounded(quot \div 2^shift, shift - k1 - k2, quot % 2^shift,
                        2^(shift - 1), (r1 * 2^k2) % den # 0)

\* a.round() as u32: to the nearest integer, halves away from zero
f32_round(a) ==
    IF a.m = 0 THEN 0
    ELSE IF a.e >= 0 THEN a.m * 2^a.e
    ELSE IF 0 - a.e > F32Bits + 1 THEN 0
    ELSE (a.m + 2^(0 - a.e - 1)) \div 2^(0 - a.e)

\* 1.0, with its sign
F32One == [neg |-> FALSE, m |-> F32Low, e |-> 1 - F32Bits]

\* a - b with its sign, for a and b whose exponents differ by 7 at most: the
\* difference is taken exactly and rounded
f32_sub(a, b) ==
    LET lo == IF a.m = 0 THEN b.e ELSE IF b.m = 0 THEN a.e ELSE Min(a.e, b.e)
        diff == (IF a.m = 0 THEN 0 ELSE a.m * 2^(a.e - lo))
                - (IF b.m = 0 THEN 0 ELSE b.m * 2^(b.e - lo))
        mag == IF diff < 0 THEN 0 - diff ELSE diff
        shift == BitLen(mag) - F32Bits
        val == IF mag = 0 THEN F32Zero
               ELSE IF shift <= 0 THEN [m |-> mag * 2^(0 - shift), e |-> lo + shift]
               ELSE F32Rounded(mag \div 2^shift, lo + shift, mag % 2^shift,
                               2^(shift - 1), FALSE)
    IN  [neg |-> diff < 0, m |-> val.m, e |-> val.e]

RECURSIVE f32_sum(_, _)
\* iter().sum::<f32>(): the values added one by one, from 0.0
f32_sum(s, acc) ==
    IF s = <<>> THEN acc ELSE f32_sum(Tail(s), f32_add(acc, Head(s)))

RECURSIVE SelectPositive(_)
SelectPositive(s) ==
    IF s = <<>> THEN <<>>
    ELSE IF f32_gt(Head(s), F32Zero) THEN <<Head(s)>> \o SelectPositive(Tail(s))
    ELSE SelectPositive(Tail(s))

\* u32::saturating_sub
saturating_sub(a, b) == IF a >= b THEN a - b ELSE 0


-----------------------------------------------------------------------------
(* LineSegmenter (segmenter.rs) *)

\* binary with the threshold value itself counted as ink
binary_inclusive(gray_img, x, y) == IF get_pixel(gray_img, x, y) <= 128 THEN 1 ELSE 0

\* binary[y * width + x]: 1 where the gray value is below the threshold 128
binary(gray_img, x, y) == IF get_pixel(gray_img, x, y) < 128 THEN 1 ELSE 0

\* hist[y]: the number of ink pixels of row y
hist_row(gray_img, y) ==
    Cardinality({x \in 0..(Width(gray_img) - 1) : binary(gray_img, x, y) = 1})

histogram(gray_img) == [i \in 1..Height(gray_img) |-> hist_row(gray_img, i - 1)]

RECURSIVE SumRange(_, _, _)
\* hist[lo] + ... + hist[hi]
SumRange(hist, lo, hi) ==
    IF lo > hi THEN 0 ELSE hist[lo + 1] + SumRange(hist, lo + 1, hi)

\* smooth_histogram dividing by the full width of the window at the edges
\* too, as if the rows outside the page held zeros
smooth_histogram_zero_padded(hist, window) ==
    LET height == Len(hist)
        half == window \div 2
        lo(i) == Max(i - half, 0)
        hi(i) == Min(i + half, height - 1)
        count(i) == 2 * half + 1
    IN  [k \in 1..height |->
            IF count(k - 1) > 0
            THEN f32_div(f32_from(SumRange(hist, lo(k - 1), hi(k - 1))), count(k - 1))
            ELSE F32Zero]

\* smooth_histogram: the mean of hist over the in-bounds rows of
\* [i - half, i + half], half = smooth_window / 2 (integer division); sum
\* only ever holds a whole number below 2^24, so that the additions are exact
smooth_histogram(hist, window) ==
    LET height == Len(hist)
        half == window \div 2
        lo(i) == Max(i - half, 0)
        hi(i) == Min(i + half, height - 1)
        count(i) == hi(i) - lo(i) + 1
    IN  [k \in 1..height |->
            IF count(k - 1) > 0
            THEN f32_div(f32_from(SumRange(hist, lo(k - 1), hi(k - 1))), count(k - 1))
            ELSE F32Zero]

\* segment, step 2: smoothed_hist
smoothed(gray_img, window) ==
    LET hist == histogram(gray_img)
    IN  IF window > 1 THEN smooth_histogram(hist, window)
        ELSE [k \in 1..Len(hist) |-> f32_from(hist[k])]

\* segment, step 3: mean_density * 0.05 over the positive smoothed values
gap_of(smoothed_h) ==
    LET non_zero_vals == SelectPositive(smoothed_h)
        mean_density == f32_div(f32_sum(non_zero_vals, F32Zero), Len(non_zero_vals))
    IN  f32_mul(mean_density, F32Literal005)

\* the columns holding ink in rows r_start .. r_end - 1
InkColumns(gray_img, r_start, r_end) ==
    {x \in 0..(Width(gray_img) - 1) :
        \E y \in r_start..(r_end - 1) : binary(gray_img, x, y) = 1}

SetMin(S) == CHOOSE m \in S : \A o \in S : m <= o
SetMax(S) == CHOOSE m \in S : \A o \in S : m >= o

\* the padding of extract_line
pad == 4

\* extract_line with the right edge left unclamped: x2 = x_max + pad
extract_line_unclamped(gray_img, width, height, r_start, r_end, results) ==
    LET cols == InkColumns(gray_img, r_start, r_end)
        has_pixels == cols # {}
        x_min == IF has_pixels THEN SetMin(cols) ELSE width
        x_max == IF has_pixels THEN SetMax(cols) ELSE 0
        y1 == saturating_sub(r_start, pad)
        y2 == Min(r_end + pad, height)
        x1 == saturating_sub(x_min, pad)
        x2 == x_max + pad
        w == x2 - x1
        h == y2 - y1
        line_img == [w |-> w, rows |-> SubSeq(gray_img.rows, y1 + 1, y2),
                     srcw |-> gray_img.srcw, x0 |-> gray_img.x0 + x1]
    IN  IF ~has_pixels THEN results
        ELSE Append(results, [img |-> line_img,
                              bbox |-> [x |-> x1, y |-> y1, w |-> w, h |-> h]])

\* extract_line putting the new line in front of results instead of behind
extract_line_in_front(gray_img, width, height, r_start, r_end, results) ==
    LET cols == InkColumns(gray_img, r_start, r_end)
        has_pixels == cols # {}
        x_min == IF has_pixels THEN SetMin(cols) ELSE width
        x_max == IF has_pixels THEN SetMax(cols) ELSE 0
        y1 == saturating_sub(r_start, pad)
        y2 == Min(r_end + pad, height)
        x1 == saturating_sub(x_min, pad)
        x2 == Min(x_max + pad, width)
        w == x2 - x1
        h == y2 - y1
        line_img == [w |-> w, rows |-> SubSeq(gray_img.rows, y1 + 1, y2),
                     srcw |-> gray_img.srcw, x0 |-> gray_img.x0 + x1]
    IN  IF ~has_pixels THEN results
        ELSE <<[img |-> line_img,
                bbox |-> [x |-> x1, y |-> y1, w |-> w, h |-> h]]>> \o results

\* extract_line returning the rows at full width when they hold no ink
extract_line_without_ink(gray_img, width, height, r_start, r_end, results) ==
    LET cols == InkColumns(gray_img, r_start, r_end)
        has_pixels == cols # {}
        x_min == IF has_pixels THEN SetMin(cols) ELSE 0
        x_max == IF has_pixels THEN SetMax(cols) ELSE width
        y1 == saturating_sub(r_start, pad)
        y2 == Min(r_end + pad, height)
        x1 == saturating_sub(x_min, pad)
        x2 == Min(x_max + pad, width)
        w == x2 - x1
        h == y2 - y1
        line_img == [w |-> w, rows |-> SubSeq(gray_img.rows, y1 + 1, y2),
                     srcw |-> gray_img.srcw, x0 |-> gray_img.x0 + x1]
    IN  Append(results, [img |-> line_img,
                         bbox |-> [x |-> x1, y |-> y1, w |-> w, h |-> h]])

\* extract_line: results with the line of rows [r_start, r_end) appended, or
\* results unchanged when the rows hold no ink
extract_line(gray_img, width, height, r_start, r_end, results) ==
    LET cols == InkColumns(gray_img, r_start, r_end)
        has_pixels == cols # {}
        x_min == IF has_pixels THEN SetMin(cols) ELSE width
        x_max == IF has_pixels THEN SetMax(cols) ELSE 0
        y1 == saturating_sub(r_start, pad)
        y2 == Min(r_end + pad, height)
        x1 == saturating_sub(x_min, pad)
        x2 == Min(x_max + pad, width)
        w == x2 - x1
        h == y2 - y1
        line_img == [w |-> w, rows |-> SubSeq(gray_img.rows, y1 + 1, y2),
                     srcw |-> gray_img.srcw, x0 |-> gray_img.x0 + x1]
    IN  IF ~has_pixels THEN results
        ELSE Append(results, [img |-> line_img,
                              bbox |-> [x |-> x1, y |-> y1, w |-> w, h |-> h]])

\* the row loop body without "start = None" after a run is closed
segment_row_keeps_start(gray_img, smoothed_h, gap, mlh, y, st) ==
    LET is_text == f32_gt(smoothed_h[y + 1], gap)
    IN  IF is_text /\ st.start = <<>> THEN [st EXCEPT !.start = <<y>>]
        ELSE IF ~is_text /\ st.start # <<>> THEN
            LET end == y
                line_height == end - st.start[1]
            IN  [start |-> st.start,
                 results |-> IF line_height >= mlh
                             THEN extract_line(gray_img, Width(gray_img), Height(gray_img),
                                               st.start[1], end, st.results)
                             ELSE st.results]
        ELSE st

\* the body of the row loop of segment, on the pair (start, results)
segment_row(gray_img, smoothed_h, gap, mlh, y, st) ==
    LET is_text == f32_gt(smoothed_h[y + 1], gap)
    IN  IF is_text /\ st.start = <<>> THEN [st EXCEPT !.start = <<y>>]
        ELSE IF ~is_text /\ st.start # <<>> THEN
            LET end == y
                line_height == end - st.start[1]
            IN  [start |-> <<>>,
                 results |-> IF line_height >= mlh
                             THEN extract_line(gray_img, Width(gray_img), Height(gray_img),
                                               st.start[1], end, st.results)
                             ELSE st.results]
        ELSE st

\* the trailing run extracted whatever its height
segment_last_any_height(gray_img, mlh, st) ==
    IF st.start # <<>>
    THEN extract_line(gray_img, Width(gray_img), Height(gray_img),
                      st.start[1], Height(gray_img), st.results)
    ELSE st.results

\* "Handle last line if image ends with text"
segment_last(gray_img, mlh, st) ==
    IF st.start # <<>> /\ Height(gray_img) - st.start[1] >= mlh
    THEN extract_line(gray_img, Width(gray_img), Height(gray_img),
                      st.start[1], Height(gray_img), st.results)
    ELSE st.results

RECURSIVE segment_rows(_, _, _, _, _, _)
\* the row loop from row y on
segment_rows(gray_img, smoothed_h, gap, mlh, y, st) ==
    IF y >= Height(gray_img) THEN st
    ELSE segment_rows(gray_img, smoothed_h, gap, mlh, y + 1,
                      segment_row(gray_img, smoothed_h, gap, mlh, y, st))

\* LineSegmenter::segment as a function of the file and the two parameters
segment(page, mlh, window) ==
    IF ~page.decodable THEN [ok |-> FALSE, lines |-> <<>>]
    ELSE LET gray_img == to_luma8(page)
             smoothed_h == smoothed(gray_img, window)
         IN  IF SelectPositive(smoothed_h) = <<>> THEN [ok |-> TRUE, lines |-> <<>>]
             ELSE [ok |-> TRUE,
                   lines |-> segment_last(gray_img, mlh,
                                segment_rows(gray_img, smoothed_h, gap_of(smoothed_h), mlh, 0,
                                             [start |-> <<>>, results |-> <<>>]))]

-----------------------------------------------------------------------------
(* One call of segment, row by row: specification SpecSegment *)

\* no call of segment in progress
SegIdle ==
    /\ seg_page = Undecodable
    /\ seg_pc = "idle"
    /\ smoothed_hist = <<>>
    /\ gap_threshold = F32Zero
    /\ seg_y = 0
    /\ seg_start = <<>>
    /\ seg_results = <<>>
    /\ seg_ret = "none"
    /\ seg_log = <<>>

SegInit ==
    /\ seg_page \in Pages \cup {Undecodable}
    /\ min_line_height \in 0..MaxMinLineHeight
    /\ smooth_window \in 0..MaxSmoothWindow
    /\ seg_pc = "open"
    /\ smoothed_hist = <<>>
    /\ gap_threshold = F32Zero
    /\ seg_y = 0
    /\ seg_start = <<>>
    /\ seg_results = <<>>
    /\ seg_ret = "none"
    /\ seg_log = <<>>

\* segment up to the row loop: open, binarize, histogram, smoothing, gap
\* threshold; returns at once when the file cannot be decoded or no row has
\* positive density
SegmentOpen ==
    /\ seg_pc = "open"
    /\ IF ~seg_page.decodable
       THEN /\ seg_pc' = "done"
            /\ seg_ret' = "err"
            /\ UNCHANGED <<smoothed_hist, gap_threshold>>
       ELSE \E smoothed_h \in {smoothed(to_luma8(seg_page), smooth_window)} :
                /\ smoothed_hist' = smoothed_h
                /\ IF SelectPositive(smoothed_h) = <<>>
                   THEN /\ seg_pc' = "done"
                        /\ seg_ret' = "ok"
                        /\ UNCHANGED gap_threshold
                   ELSE /\ seg_pc' = "scan"
                        /\ seg_ret' = "none"
                        /\ gap_threshold' = gap_of(smoothed_h)
    /\ UNCHANGED <<seg_page, seg_y, seg_start, seg_results, seg_log>>
    /\ UNCHANGED <<cfgVars, charset, decVars, accVars, ocrVars, preVars, mgrVars>>

\* one iteration of "for y in 0..height"
SegmentRow ==
    /\ seg_pc = "scan"
    /\ seg_y < Height(seg_page)
    /\ LET st == segment_row(to_luma8(seg_page), smoothed_hist, gap_threshold,
                             min_line_height, seg_y,
                             [start |-> seg_start, results |-> seg_results])
       IN  /\ seg_start' = st.start
           /\ seg_results' = st.results
    /\ seg_y' = seg_y + 1
    /\ seg_pc' = IF seg_y + 1 < Height(seg_page) THEN "scan" ELSE "last"
    /\ UNCHANGED <<seg_page, smoothed_hist, gap_threshold, seg_ret, seg_log>>
    /\ UNCHANGED <<cfgVars, charset, decVars, accVars, ocrVars, preVars, mgrVars>>

\* the trailing run, then Ok(results)
SegmentLast ==
    /\ seg_pc = "last"
    /\ seg_results' = segment_last(to_luma8(seg_page), min_line_height,
                                   [start |-> seg_start, results |-> seg_results])
    /\ seg_pc' = "done"
    /\ seg_ret' = "ok"
    /\ UNCHANGED <<seg_page, smoothed_hist, gap_threshold, seg_y, seg_start, seg_log>>
    /\ UNCHANGED <<cfgVars, charset, decVars, accVars, ocrVars, preVars, mgrVars>>

SegNext == SegmentOpen \/ SegmentRow \/ SegmentLast

\* pages of eight rows: two dense rows, each followed by two blank ones,
\* and two rows of any kind
LongPages ==
    {[decodable |-> TRUE, w |-> PageWidth,
      rows |-> <<"dense", "blank", "blank", "dense", "blank", "blank">> \o tail] :
        tail \in [1..2 -> RowKinds]}

\* a call of segment on one of the pages of eight rows
SegLongInit ==
    /\ seg_page \in LongPages
    /\ min_line_height \in 0..MaxMinLineHeight
    /\ smooth_window \in 0..MaxSmoothWindow
    /\ seg_pc = "open"
    /\ smoothed_hist = <<>>
    /\ gap_threshold = F32Zero
    /\ seg_y = 0
    /\ seg_start = <<>>
    /\ seg_results = <<>>
    /\ seg_ret = "none"
    /\ seg_log = <<>>

-----------------------------------------------------------------------------
(* CTC greedy decoding: MonOcr::decode_owned (monocr.rs) *)

\* longest logits sequence, in timesteps
MaxT == 3
\* the charsets a MonOcr is built with
Charsets == {<<"a">>, <<"a", "b">>}
\* the classes of the model output: the blank and one per symbol of the
\* longest charset (with the charset <<"a">>, class 2 has no symbol)
NumClasses == Len(<<"a", "b">>) + 1
\* the logit values
LogitValues == {-1, 1}

RECURSIVE argmax_from_last(_, _, _, _, _, _)
\* the class loop with "val >= max_val": the last of several largest logits wins
argmax_from_last(data, num_classes, t, c, max_val, max_idx) ==
    IF c >= num_classes THEN max_idx
    ELSE LET idx == t * num_classes + c
             val == data[idx + 1]
         IN  IF max_val = <<>> \/ val >= max_val[1]
             THEN argmax_from_last(data, num_classes, t, c + 1, <<val>>, c)
             ELSE argmax_from_last(data, num_classes, t, c + 1, max_val, max_idx)

RECURSIVE argmax_from(_, _, _, _, _, _)
\* the class loop of one timestep from class c on; max_val is <<>> for
\* f32::NEG_INFINITY
argmax_from(data, num_classes, t, c, max_val, max_idx) ==
    IF c >= num_classes THEN max_idx
    ELSE LET idx == t * num_classes + c
             val == data[idx + 1]
         IN  IF max_val = <<>> \/ val > max_val[1]
             THEN argmax_from(data, num_classes, t, c + 1, <<val>>, c)
             ELSE argmax_from(data, num_classes, t, c + 1, max_val, max_idx)

\* the body of the timestep loop on the pair (decoded, prev_idx) with the
\* "blank does not reset the repeat" slip: prev_idx only follows emitted classes
decode_step_no_reset(cs, data, num_classes, t, st) ==
    LET max_idx == argmax_from(data, num_classes, t, 0, <<>>, 0)
    IN  IF max_idx # 0 /\ max_idx # st.prev_idx
        THEN [decoded |-> IF max_idx > 0 /\ max_idx <= Len(cs)
                          THEN Append(st.decoded, cs[max_idx])
                          ELSE st.decoded,
              prev_idx |-> max_idx]
        ELSE st

\* the body of the timestep loop with "prev_idx = max_idx" inside the charset
\* test: a class without a symbol leaves prev_idx alone
decode_step_keeps_prev(cs, data, num_classes, t, st) ==
    LET max_idx == argmax_from(data, num_classes, t, 0, <<>>, 0)
    IN  IF max_idx = 0 \/ max_idx <= Len(cs)
        THEN [decoded |-> IF max_idx # 0 /\ max_idx # st.prev_idx
                          THEN Append(st.decoded, cs[max_idx])
                          ELSE st.decoded,
              prev_idx |-> max_idx]
        ELSE st

\* the body of the timestep loop on the pair (decoded, prev_idx);
\* self.charset[max_idx - 1] is cs[max_idx]
decode_step(cs, data, num_classes, t, st) ==
    LET max_idx == argmax_from(data, num_classes, t, 0, <<>>, 0)
    IN  [decoded |-> IF max_idx # 0 /\ max_idx # st.prev_idx
                        /\ max_idx > 0 /\ max_idx <= Len(cs)
                     THEN Append(st.decoded, cs[max_idx])
                     ELSE st.decoded,
         prev_idx |-> max_idx]

RECURSIVE decode_from(_, _, _, _, _)
decode_from(cs, data, shape, t, st) ==
    IF t >= shape[2] THEN st.decoded
    ELSE decode_from(cs, data, shape, t + 1, decode_step(cs, data, shape[3], t, st))

\* decode_owned(data, shape) of a MonOcr with charset cs
decode_owned(cs, data, shape) ==
    decode_from(cs, data, shape, 0, [decoded |-> <<>>, prev_idx |-> -1])

DecIdle ==
    /\ dec_data = <<>>
    /\ dec_shape = <<1, 0, 0>>
    /\ dec_pc = "idle"
    /\ dec_t = 0
    /\ decoded = <<>>
    /\ prev_idx = -1

DecInit ==
    /\ charset \in Charsets
    /\ \E T \in 0..MaxT :
          /\ dec_shape = <<1, T, NumClasses>>
          /\ dec_data \in [1..(T * NumClasses) -> LogitValues]
    /\ dec_pc = "loop"
    /\ dec_t = 0
    /\ decoded = <<>>
    /\ prev_idx = -1

\* one iteration of "for t in 0..sequence_length"
DecodeStep ==
    /\ dec_pc = "loop"
    /\ dec_t < dec_shape[2]
    /\ LET st == decode_step(charset, dec_data, dec_shape[3], dec_t,
                             [decoded |-> decoded, prev_idx |-> prev_idx])
       IN  /\ decoded' = st.decoded
           /\ prev_idx' = st.prev_idx
    /\ dec_t' = dec_t + 1
    /\ UNCHANGED <<dec_data, dec_shape, dec_pc>>
    /\ UNCHANGED <<cfgVars, segVars, charset, accVars, ocrVars, preVars, mgrVars>>

\* the loop is over: decode_owned returns decoded
DecodeReturn ==
    /\ dec_pc = "loop"
    /\ dec_t >= dec_shape[2]
    /\ dec_pc' = "done"
    /\ UNCHANGED <<dec_data, dec_shape, dec_t, decoded, prev_idx>>
    /\ UNCHANGED <<cfgVars, segVars, charset, accVars, ocrVars, preVars, mgrVars>>

DecNext == DecodeStep \/ DecodeReturn

-----------------------------------------------------------------------------
(* Accuracy: calculate_accuracy and levenshtein (utils.rs) *)

\* longest string scored, in code points
MaxStrLen == 5
\* the code points of the strings scored
Alphabet == {"a", "b"}

Min3(a, b, c) == Min(a, Min(b, c))

RECURSIVE levenshtein_row_cost2(_, _, _, _, _, _)
\* the inner loop with a substitution counted as a deletion and an insertion
levenshtein_row_cost2(s1, s2, j, prev, i, row) ==
    IF i > Len(s1) THEN row
    ELSE LET substitution_cost == IF s1[i] = s2[j] THEN 0 ELSE 2
             cell == Min3(row[i] + 1, prev[i + 1] + 1, prev[i] + substitution_cost)
         IN  levenshtein_row_cost2(s1, s2, j, prev, i + 1, Append(row, cell))

RECURSIVE levenshtein_row_deletion2(_, _, _, _, _, _)
\* the inner loop with a deletion counted twice
levenshtein_row_deletion2(s1, s2, j, prev, i, row) ==
    IF i > Len(s1) THEN row
    ELSE LET substitution_cost == IF s1[i] = s2[j] THEN 0 ELSE 1
             cell == Min3(row[i] + 2, prev[i + 1] + 1, prev[i] + substitution_cost)
         IN  levenshtein_row_deletion2(s1, s2, j, prev, i + 1, Append(row, cell))

RECURSIVE levenshtein_row_free_substitution(_, _, _, _, _, _)
\* the inner loop with substitution_cost 0 for unequal code points too
levenshtein_row_free_substitution(s1, s2, j, prev, i, row) ==
    IF i > Len(s1) THEN row
    ELSE LET cell == Min3(row[i] + 1, prev[i + 1] + 1, prev[i])
         IN  levenshtein_row_free_substitution(s1, s2, j, prev, i + 1, Append(row, cell))

RECURSIVE levenshtein_row(_, _, _, _, _, _)
\* the inner loop "for i in 1..=len1" of row j from column i on: row holds
\* matrix[j][0 .. i - 1] and prev is matrix[j - 1]
levenshtein_row(s1, s2, j, prev, i, row) ==
    IF i > Len(s1) THEN row
    ELSE LET substitution_cost == IF s1[i] = s2[j] THEN 0 ELSE 1
             cell == Min3(row[i] + 1,                     \* deletion
                          prev[i + 1] + 1,                \* insertion
                          prev[i] + substitution_cost)    \* substitution
         IN  levenshtein_row(s1, s2, j, prev, i + 1, Append(row, cell))

RECURSIVE levenshtein_rows(_, _, _, _)
\* the outer loop "for j in 1..=len2" from row j on; prev is matrix[j - 1]
levenshtein_rows(s1, s2, j, prev) ==
    IF j > Len(s2) THEN prev
    ELSE levenshtein_rows(s1, s2, j + 1, levenshtein_row(s1, s2, j, prev, 1, <<j>>))

\* levenshtein(s1, s2): matrix[len2][len1] of the table filled row by row;
\* matrix[0][i] = i and matrix[j][0] = j
levenshtein(s1, s2) ==
    levenshtein_rows(s1, s2, 1, [k \in 1..(Len(s1) + 1) |-> k - 1])[Len(s1) + 1]

-----------------------------------------------------------------------------
(* f64 arithmetic, as far as calculate_accuracy uses it.  A natural number  *)
(* too large for one integer is a sequence of limbs, most significant       *)
(* first, each below Limb.  An f64 is [neg, mant, exp]: the natural number  *)
(* mant, of at most 53 bits (or 2^53), times 2^exp, negated when neg.       *)
(* Every operation rounds its exact result to nearest, ties to even.        *)

\* the bits of the mantissa of an f64
MantissaBits == 53

\* the bits of a limb, and the base of the limbs
LimbBits == 15
Limb == 2^LimbBits

\* a natural number below 2^31 as limbs
BigOfNat(n) == <<n \div (Limb * Limb), (n \div Limb) % Limb, n % Limb>>

RECURSIVE BigToNat(_)
\* the natural number of the limbs m, when it is below 2^31
BigToNat(m) ==
    IF m = <<>> THEN 0
    ELSE BigToNat(SubSeq(m, 1, Len(m) - 1)) * Limb + m[Len(m)]

BigZeros(n) == [k \in 1..n |-> 0]

\* 2^f
BigPow2(f) == <<2^(f % LimbBits)>> \o BigZeros(f \div LimbBits)

\* m with leading zero limbs up to n limbs
BigPad(m, n) == BigZeros(n - Len(m)) \o m

\* the number of bits of m: 0 for zero
BigBitLen(m) ==
    IF \A k \in 1..Len(m) : m[k] = 0 THEN 0
    ELSE LET i == CHOOSE k \in 1..Len(m) : m[k] # 0 /\ \A j \in 1..(k - 1) : m[j] = 0
             top == CHOOSE b \in 1..LimbBits : 2^(b - 1) <= m[i] /\ m[i] < 2^b
         IN  (Len(m) - i) * LimbBits + top

\* the bit of m at position p (the least significant bit is at position 0)
BigBit(m, p) ==
    LET i == Len(m) - p \div LimbBits
    IN  IF i < 1 THEN 0 ELSE (m[i] \div 2^(p % LimbBits)) % 2

\* some bit of m below position p is set
BigLowBits(m, p) ==
    \E k \in 1..Len(m) :
        LET low == (Len(m) - k) * LimbBits   \* the position of the lowest bit of limb k
        IN  IF low + LimbBits <= p THEN m[k] # 0
            ELSE IF low < p THEN m[k] % 2^(p - low) # 0
            ELSE FALSE

\* m \div 2^s
BigShiftRight(m, s) ==
    LET w == s \div LimbBits
        r == s % LimbBits
        kept == IF w >= Len(m) THEN <<>> ELSE SubSeq(m, 1, Len(m) - w)
    IN  [k \in 1..Len(kept) |->
            kept[k] \div 2^r
              + (IF k > 1 THEN (kept[k - 1] % 2^r) * 2^(LimbBits - r) ELSE 0)]

\* m + 1
BigIncrement(m) ==
    IF \A k \in 1..Len(m) : m[k] = Limb - 1 THEN <<1>> \o BigZeros(Len(m))
    ELSE LET last == CHOOSE k \in 1..Len(m) :
                         m[k] # Limb - 1 /\ \A j \in (k + 1)..Len(m) : m[j] = Limb - 1
         IN  [k \in 1..Len(m) |-> IF k < last THEN m[k]
                                  ELSE IF k = last THEN m[k] + 1 ELSE 0]

\* a < b for two numbers of one length
BigLess(a, b) ==
    \E k \in 1..Len(a) : a[k] < b[k] /\ \A j \in 1..(k - 1) : a[j] = b[j]

RECURSIVE BigSubFrom(_, _, _, _, _)
\* a - b from limb k up to the most significant limb, with the borrow of the
\* limbs behind k; low holds the limbs behind k
BigSubFrom(a, b, k, borrow, low) ==
    IF k = 0 THEN low
    ELSE IF a[k] - b[k] - borrow < 0
    THEN BigSubFrom(a, b, k - 1, 1, <<a[k] - b[k] - borrow + Limb>> \o low)
    ELSE BigSubFrom(a, b, k - 1, 0, <<a[k] - b[k] - borrow>> \o low)

\* a - b for two numbers of one length with a >= b
BigSub(a, b) == BigSubFrom(a, b, Len(a), 0, <<>>)

RECURSIVE BigMulFrom(_, _, _, _, _)
\* m * n from limb k up to the most significant limb, with the carry of the
\* limbs behind k; low holds the limbs behind k
BigMulFrom(m, n, k, carry, low) ==
    IF k = 0 THEN <<carry>> \o low
    ELSE BigMulFrom(m, n, k - 1, (m[k] * n + carry) \div Limb,
                    <<(m[k] * n + carry) % Limb>> \o low)

\* m * n for a natural n below Limb
BigMulSmall(m, n) == BigMulFrom(m, n, Len(m), 0, <<>>)

RECURSIVE BigDivFrom(_, _, _, _)
\* count more limbs of rem / b behind the limbs of quot, and the remainder
\* left (b at most Limb)
BigDivFrom(rem, b, count, quot) ==
    IF count = 0 THEN [quot |-> quot, rem |-> rem]
    ELSE BigDivFrom((rem * Limb) % b, b, count - 1, Append(quot, (rem * Limb) \div b))

\* the f64 nearest to m * 2^exp (ties to even), negated when neg; inexact
\* says that m stands for a value slightly above it
f64_nearest(neg, m, exp, inexact) ==
    LET len == BigBitLen(m)
        s == len - MantissaBits
    IN  IF len = 0 THEN [neg |-> FALSE, mant |-> <<>>, exp |-> 0]
        ELSE IF s <= 0 THEN [neg |-> neg, mant |-> m, exp |-> exp]
        ELSE LET kept == BigShiftRight(m, s)
                 guard == BigBit(m, s - 1)
                 rest == inexact \/ BigLowBits(m, s - 1)
                 up == guard = 1 /\ (rest \/ BigBit(kept, 0) = 1)
             IN  [neg |-> neg,
                  mant |-> IF up THEN BigIncrement(kept) ELSE kept,
                  exp |-> exp + s]

\* the limbs a quotient is taken to behind the binary point: enough to round
\* the quotient of two naturals below Limb
QuotientLimbs == (MantissaBits + 2) \div LimbBits + 2

\* a as f64 / b as f64 for naturals a and b > 0 (both exact as f64)
f64_div(a, b) ==
    LET q == BigDivFrom(a % b, b, QuotientLimbs, BigOfNat(a \div b))
    IN  f64_nearest(FALSE, q.quot, -(QuotientLimbs * LimbBits), q.rem # 0)

\* 1.0 - q for an f64 q >= 0 with q.exp <= 0
f64_one_minus(q) ==
    LET one == BigPow2(-q.exp)
        n == Max(Len(one), Len(q.mant))
        a == BigPad(one, n)
        b == BigPad(q.mant, n)
    IN  IF BigLess(a, b) THEN f64_nearest(TRUE, BigSub(b, a), q.exp, FALSE)
        ELSE f64_nearest(FALSE, BigSub(a, b), q.exp, FALSE)

\* x * n for an f64 x and a natural n below Limb (exact as f64)
f64_mul(x, n) == f64_nearest(x.neg, BigMulSmall(x.mant, n), x.exp, FALSE)

\* f64::round, as an integer: the nearest integer, half away from zero (for
\* an f64 x below 2^31 in magnitude)
f64_round(x) ==
    LET f == -x.exp
        magnitude ==
            IF f <= 0 THEN BigToNat(x.mant) * 2^(-f)
            ELSE BigToNat(BigShiftRight(x.mant, f)) + BigBit(x.mant, f - 1)
    IN  IF x.neg THEN -magnitude ELSE magnitude

\* ((1.0 - distance as f64 / max_len as f64) * 100.0 * 100.0).round(): the
\* score in hundredths of a percent; the final "/ 100.0" gives the f64
\* nearest to that many hundredths
score_f64(distance, max_len) ==
    f64_round(f64_mul(f64_mul(f64_one_minus(f64_div(distance, max_len)), 100), 100))

-----------------------------------------------------------------------------
(* calculate_accuracy *)

\* the early returns with 100.0 for two empty strings, as the doc comment of
\* calculate_accuracy has it
early_return_doc(pred, truth) ==
    IF pred = <<>> /\ truth = <<>> THEN <<10000>>
    ELSE IF truth = <<>> THEN <<0>>
    ELSE IF pred = <<>> THEN <<0>>
    ELSE <<>>

\* the early returns of calculate_accuracy: <<v>> when it returns v before
\* computing a distance, <<>> when it goes on
early_return(pred, truth) ==
    IF truth = <<>> THEN <<0>>
    ELSE IF pred = <<>> THEN <<0>>
    ELSE <<>>

\* calculate_accuracy from "if max_len == 0" on, in hundredths of a percent
\* (100.0 is 10000)
score_of(distance, max_len) ==
    IF max_len = 0 THEN 10000
    ELSE score_f64(distance, max_len)

\* calculate_accuracy(predicted, ground_truth), in hundredths of a percent
calculate_accuracy(pred, truth) ==
    IF early_return(pred, truth) # <<>> THEN early_return(pred, truth)[1]
    ELSE score_of(levenshtein(pred, truth), Max(Len(pred), Len(truth)))

\* a ground truth long enough for the f64 products to miss the exact value
LongTruths == {[k \in 1..160 |-> "a"]}

AccIdle ==
    /\ predicted = <<>>
    /\ ground_truth = <<>>
    /\ acc_pc = "idle"
    /\ lev_j = 0
    /\ matrix_row = <<>>
    /\ accuracy = 0

AccInit ==
    /\ predicted \in SeqsUpTo(Alphabet, MaxStrLen)
    /\ ground_truth \in SeqsUpTo(Alphabet, MaxStrLen) \cup LongTruths
    /\ acc_pc = "call"
    /\ lev_j = 0
    /\ matrix_row = <<>>
    /\ accuracy = 0

\* calculate_accuracy up to the row loop of levenshtein: the early returns,
\* or the first row of the table (matrix[0][i] = i)
AccuracyEntry ==
    /\ acc_pc = "call"
    /\ IF early_return(predicted, ground_truth) # <<>>
       THEN /\ accuracy' = early_return(predicted, ground_truth)[1]
            /\ acc_pc' = "done"
            /\ UNCHANGED <<lev_j, matrix_row>>
       ELSE /\ matrix_row' = [k \in 1..(Len(predicted) + 1) |-> k - 1]
            /\ lev_j' = 1
            /\ acc_pc' = "rows"
            /\ UNCHANGED accuracy
    /\ UNCHANGED <<predicted, ground_truth>>
    /\ UNCHANGED <<cfgVars, segVars, charset, decVars, ocrVars, preVars, mgrVars>>

\* one iteration of "for j in 1..=len2" of levenshtein
LevenshteinRow ==
    /\ acc_pc = "rows"
    /\ lev_j <= Len(ground_truth)
    /\ matrix_row' = levenshtein_row(predicted, ground_truth, lev_j, matrix_row, 1, <<lev_j>>)
    /\ lev_j' = lev_j + 1
    /\ UNCHANGED <<predicted, ground_truth, acc_pc, accuracy>>
    /\ UNCHANGED <<cfgVars, segVars, charset, decVars, ocrVars, preVars, mgrVars>>

\* levenshtein returns matrix[len2][len1]; calculate_accuracy returns the
\* score
AccuracyReturn ==
    /\ acc_pc = "rows"
    /\ lev_j > Len(ground_truth)
    /\ accuracy' = score_of(matrix_row[Len(predicted) + 1],
                            Max(Len(predicted), Len(ground_truth)))
    /\ acc_pc' = "done"
    /\ UNCHANGED <<predicted, ground_truth, lev_j, matrix_row>>
    /\ UNCHANGED <<cfgVars, segVars, charset, decVars, ocrVars, preVars, mgrVars>>

AccNext == AccuracyEntry \/ LevenshteinRow \/ AccuracyReturn

\* longest string handed to levenshtein directly, in code points
MaxEditLen == 3

\* levenshtein(s1, s2) called on its own, as by tests::test_levenshtein:
\* predicted holds s1 and ground_truth holds s2
LevInit ==
    /\ predicted \in SeqsUpTo(Alphabet, MaxEditLen)
    /\ ground_truth \in SeqsUpTo(Alphabet, MaxEditLen)
    /\ acc_pc = "lev_call"
    /\ lev_j = 0
    /\ matrix_row = <<>>
    /\ accuracy = 0

\* levenshtein up to its row loop: matrix[0][i] = i
LevenshteinCall ==
    /\ acc_pc = "lev_call"
    /\ matrix_row' = [k \in 1..(Len(predicted) + 1) |-> k - 1]
    /\ lev_j' = 1
    /\ acc_pc' = "lev_rows"
    /\ UNCHANGED <<predicted, ground_truth, accuracy>>
    /\ UNCHANGED <<cfgVars, segVars, charset, decVars, ocrVars, preVars, mgrVars>>

\* one iteration of "for j in 1..=len2"
LevenshteinLoop ==
    /\ acc_pc = "lev_rows"
    /\ lev_j <= Len(ground_truth)
    /\ matrix_row' = levenshtein_row(predicted, ground_truth, lev_j, matrix_row, 1, <<lev_j>>)
    /\ lev_j' = lev_j + 1
    /\ UNCHANGED <<predicted, ground_truth, acc_pc, accuracy>>
    /\ UNCHANGED <<cfgVars, segVars, charset, decVars, ocrVars, preVars, mgrVars>>

\* levenshtein returns matrix[len2][len1], the last cell of matrix_row
LevenshteinReturn ==
    /\ acc_pc = "lev_rows"
    /\ lev_j > Len(ground_truth)
    /\ acc_pc' = "lev_done"
    /\ UNCHANGED <<predicted, ground_truth, lev_j, matrix_row, accuracy>>
    /\ UNCHANGED <<cfgVars, segVars, charset, decVars, ocrVars, preVars, mgrVars>>

LevNext == LevenshteinCall \/ LevenshteinLoop \/ LevenshteinReturn

-----------------------------------------------------------------------------
(* The page and batch pipeline: MonOcr (monocr.rs) *)

\* longest batch, in pages
MaxPages == 3

\* the line separator of read_image
NL == "\n"

\* the charset of the MonOcr under test
OcrCharset == <<"a", "b">>

\* the (min_line_height, smooth_window) a MonOcr under test is built with
OcrConfigs == {<<1, 1>>, <<2, 3>>}

\* a page of h rows without ink
BlankPage(h) == [decodable |-> TRUE, w |-> PageWidth, rows |-> [k \in 1..h |-> "blank"]]
\* a page with one band of ink
OneBandPage == [decodable |-> TRUE, w |-> PageWidth, rows |-> <<"dense", "dense">>]
\* a page with two bands of ink
TwoBandPage ==
    [decodable |-> TRUE, w |-> PageWidth,
     rows |-> <<"dense", "dense", "blank", "blank", "sparse", "sparse">>]

\* the files a batch is made of
BatchFiles == {Undecodable, BlankPage(2), OneBandPage, TwoBandPage}
\* the files a single-page call is made on
SingleFiles == BatchFiles \cup {BlankPage(h) : h \in 0..MaxHeight}

\* what Session::run gives for a line: an output tensor (data, shape), or
\* an error.  The backend is external: any of these may come back for any line.
InferenceOutcomes ==
    { [ok |-> FALSE, data |-> <<>>, shape |-> <<1, 0, 0>>],
      \* argmax 0, 0: decodes to the empty string
      [ok |-> TRUE, data |-> <<1, -1, -1,  1, -1, -1>>, shape |-> <<1, 2, 3>>],
      \* argmax 1, 1, 2: decodes to "ab"
      [ok |-> TRUE, data |-> <<-1, 1, -1,  -1, 1, -1,  -1, -1, 1>>, shape |-> <<1, 3, 3>>] }

RECURSIVE join_skip_empty(_)
\* a join that leaves empty texts out
join_skip_empty(texts) ==
    IF texts = <<>> THEN <<>>
    ELSE IF Head(texts) = <<>> THEN join_skip_empty(Tail(texts))
    ELSE IF join_skip_empty(Tail(texts)) = <<>> THEN Head(texts)
    ELSE Head(texts) \o <<NL>> \o join_skip_empty(Tail(texts))

RECURSIVE join(_)
\* texts.join("\n")
join(texts) ==
    IF texts = <<>> THEN <<>>
    ELSE IF Len(texts) = 1 THEN texts[1]
    ELSE Head(texts) \o <<NL>> \o join(Tail(texts))

\* results.into_iter().map(|r| r.text).collect()
texts_of(line_results) == [k \in 1..Len(line_results) |-> line_results[k].text]

IsBatch == op \in {"read_images", "read_pdf"}

\* the events of history: segment called on page i (ok: it returned Ok), and
\* the inference session run on line j of page i (ok: it returned Ok; text:
\* what the output decoded to)
SegmentEvent(i, ok) ==
    [ev |-> "segment", page |-> i, line |-> 0, ok |-> ok, text |-> <<>>]
InferEvent(i, j, ok, text) ==
    [ev |-> "infer", page |-> i, line |-> j, ok |-> ok, text |-> text]

Ok(v) == [kind |-> "ok", value |-> v]
Err == [kind |-> "err", value |-> <<>>]

\* an OcrResult whose accuracy is the score of the ground truth against itself
with_accuracy_of_truth(text, truth) ==
    [text |-> text, accuracy |-> calculate_accuracy(truth, truth)]

\* read_image_with_accuracy after read_image has returned Ok(text):
\* OcrResult { text, accuracy: calculate_accuracy(&text, ground_truth) }
with_accuracy(text, truth) ==
    [text |-> text, accuracy |-> calculate_accuracy(text, truth)]

\* the ground truths read_image_with_accuracy is called with
GroundTruths == {<<>>, <<"a", "b">>, <<"a", "b", NL, "a", "b">>, <<"b", "b", NL>>}

\* no call of calculate_accuracy of its own is running; ground_truth is the
\* argument of read_image_with_accuracy
OcrTruthInit ==
    /\ predicted = <<>>
    /\ ground_truth \in (IF op = "read_image_with_accuracy" THEN GroundTruths ELSE {<<>>})
    /\ acc_pc = "idle"
    /\ lev_j = 0
    /\ matrix_row = <<>>
    /\ accuracy = 0

OcrIdle ==
    /\ op = "none"
    /\ paths = <<>>
    /\ pc = "idle"
    /\ page_i = 0
    /\ lines = <<>>
    /\ line_j = 0
    /\ page_results = <<>>
    /\ page_texts = <<>>
    /\ ret = [kind |-> "none", value |-> <<>>]
    /\ history = <<>>

\* a MonOcr built with some min_line_height and smooth_window, and one call
\* of its API about to start
OcrInit ==
    /\ \E cfg \in OcrConfigs :
          /\ min_line_height = cfg[1]
          /\ smooth_window = cfg[2]
    /\ charset = OcrCharset
    /\ op \in {"read_image", "predict_page", "read_images", "read_pdf",
              "read_image_with_accuracy"}
    /\ IF IsBatch
       THEN paths \in SeqsUpTo(BatchFiles, MaxPages)
       ELSE paths \in {<<f>> : f \in SingleFiles}
    /\ pc = "call"
    /\ page_i = 0
    /\ lines = <<>>
    /\ line_j = 0
    /\ page_results = <<>>
    /\ page_texts = <<>>
    /\ ret = [kind |-> "none", value |-> <<>>]
    /\ history = <<>>

\* read_image, predict_page, read_image_with_accuracy (whose first statement
\* is read_image): straight into the page; read_images: into the loop over
\* image_paths, or Ok(results) at once when there is no path
Call ==
    /\ pc = "call"
    /\ op \in {"read_image", "predict_page", "read_images", "read_image_with_accuracy"}
    /\ IF op = "read_images" /\ paths = <<>>
       THEN /\ pc' = "done"
            /\ ret' = Ok(<<>>)
       ELSE /\ pc' = "page"
            /\ UNCHANGED ret
    /\ UNCHANGED <<op, paths, page_i, lines, line_j, page_results, page_texts,
                   history>>
    /\ UNCHANGED <<cfgVars, segVars, charset, decVars, accVars, preVars, mgrVars>>

\* read_pdf up to its page loop: pdftoppm is missing or fails, or it renders
\* the pages; entries are then the rendered files in page-number order
\* (paths), and none at all is an error
PdfToImages ==
    /\ pc = "call"
    /\ op = "read_pdf"
    /\ \E tool_ok \in BOOLEAN :
          IF tool_ok /\ paths # <<>>
          THEN /\ pc' = "page"
               /\ UNCHANGED ret
          ELSE /\ pc' = "done"
               /\ ret' = Err
    /\ UNCHANGED <<op, paths, page_i, lines, line_j, page_results, page_texts,
                   history>>
    /\ UNCHANGED <<cfgVars, segVars, charset, decVars, accVars, preVars, mgrVars>>

\* StartPage going on to the next page of a batch when segment fails
StartPageSkipFailed ==
    /\ pc = "page"
    /\ LET i == page_i + 1
           seg == segment(paths[i], min_line_height, smooth_window)
       IN  /\ history' = Append(history, SegmentEvent(i, seg.ok))
           /\ IF seg.ok
              THEN /\ lines' = seg.lines
                   /\ page_results' = <<>>
                   /\ line_j' = 0
                   /\ pc' = "line"
                   /\ UNCHANGED <<ret, page_i>>
              ELSE IF IsBatch /\ i < Len(paths)
              THEN /\ page_i' = i
                   /\ UNCHANGED <<lines, page_results, line_j, pc, ret>>
              ELSE /\ pc' = "done"
                   /\ ret' = Err
                   /\ UNCHANGED <<lines, page_results, line_j, page_i>>
    /\ UNCHANGED <<op, paths, page_texts>>
    /\ UNCHANGED <<cfgVars, segVars, charset, decVars, accVars, preVars, mgrVars>>

\* StartPage handing over the first line only, as a segmenter would that
\* gives out its lines while it is still scanning the page
StartPageFirstLineOnly ==
    /\ pc = "page"
    /\ LET i == page_i + 1
           seg == segment(paths[i], min_line_height, smooth_window)
       IN  /\ history' = Append(history, SegmentEvent(i, seg.ok))
           /\ IF seg.ok
              THEN /\ lines' = IF seg.lines = <<>> THEN <<>> ELSE <<seg.lines[1]>>
                   /\ page_results' = <<>>
                   /\ line_j' = 0
                   /\ pc' = "line"
                   /\ UNCHANGED ret
              ELSE /\ pc' = "done"
                   /\ ret' = Err
                   /\ UNCHANGED <<lines, page_results, line_j>>
    /\ UNCHANGED <<op, paths, page_i, page_texts>>
    /\ UNCHANGED <<cfgVars, segVars, charset, decVars, accVars, preVars, mgrVars>>

\* predict_page, "let lines = self.segmenter.segment(image_path)?": the
\* error of segment is the error of the whole call
StartPage ==
    /\ pc = "page"
    /\ LET i == page_i + 1
           seg == segment(paths[i], min_line_height, smooth_window)
       IN  /\ history' = Append(history, SegmentEvent(i, seg.ok))
           /\ IF seg.ok
              THEN /\ lines' = seg.lines
                   /\ page_results' = <<>>
                   /\ line_j' = 0
                   /\ pc' = "line"
                   /\ UNCHANGED ret
              ELSE /\ pc' = "done"
                   /\ ret' = Err
                   /\ UNCHANGED <<lines, page_results, line_j>>
    /\ UNCHANGED <<op, paths, page_i, page_texts>>
    /\ UNCHANGED <<cfgVars, segVars, charset, decVars, accVars, preVars, mgrVars>>

\* PredictLine running the session a second time on a line whose first run
\* failed
PredictLineRetries ==
    /\ pc = "line"
    /\ line_j < Len(lines)
    /\ \E out \in InferenceOutcomes :
          LET line == lines[line_j + 1]
              text == decode_owned(charset, out.data, out.shape)
              retried == history[Len(history)].ev = "infer"
                           /\ ~history[Len(history)].ok
          IN  /\ history' = Append(history,
                                     InferEvent(page_i + 1, line_j + 1, out.ok,
                                                IF out.ok THEN text ELSE <<>>))
              /\ IF out.ok
                 THEN /\ page_results' = Append(page_results,
                                                [text |-> text, bbox |-> line.bbox])
                      /\ line_j' = line_j + 1
                      /\ UNCHANGED <<pc, ret>>
                 ELSE IF retried
                 THEN /\ pc' = "done"
                      /\ ret' = Err
                      /\ UNCHANGED <<page_results, line_j>>
                 ELSE UNCHANGED <<pc, ret, page_results, line_j>>
    /\ UNCHANGED <<op, paths, page_i, lines, page_texts>>
    /\ UNCHANGED <<cfgVars, segVars, charset, decVars, accVars, preVars, mgrVars>>

\* one iteration of "for line in lines": predict_line (preprocess, one
\* blocking Session::run, decode_owned), then results.push; an error of the
\* backend is the error of the whole call
PredictLine ==
    /\ pc = "line"
    /\ line_j < Len(lines)
    /\ \E out \in InferenceOutcomes :
          LET line == lines[line_j + 1]
              text == decode_owned(charset, out.data, out.shape)
          IN  /\ history' = Append(history,
                                     InferEvent(page_i + 1, line_j + 1, out.ok,
                                                IF out.ok THEN text ELSE <<>>))
              /\ IF out.ok
                 THEN /\ page_results' = Append(page_results,
                                                [text |-> text, bbox |-> line.bbox])
                      /\ line_j' = line_j + 1
                      /\ UNCHANGED <<pc, ret>>
                 ELSE /\ pc' = "done"
                      /\ ret' = Err
                      /\ UNCHANGED <<page_results, line_j>>
    /\ UNCHANGED <<op, paths, page_i, lines, page_texts>>
    /\ UNCHANGED <<cfgVars, segVars, charset, decVars, accVars, preVars, mgrVars>>

\* EndPage putting the text of the page in front of results
EndPageInFront ==
    /\ pc = "line"
    /\ line_j >= Len(lines)
    /\ LET text == join(texts_of(page_results))
       IN  CASE op = "predict_page" ->
                  /\ ret' = Ok(page_results)
                  /\ pc' = "done"
                  /\ UNCHANGED <<page_i, page_texts>>
             [] op = "read_image" ->
                  /\ ret' = Ok(text)
                  /\ pc' = "done"
                  /\ UNCHANGED <<page_i, page_texts>>
             [] op = "read_image_with_accuracy" ->
                  /\ ret' = Ok(with_accuracy(text, ground_truth))
                  /\ pc' = "done"
                  /\ UNCHANGED <<page_i, page_texts>>
             [] OTHER ->
                  /\ page_texts' = <<text>> \o page_texts
                  /\ page_i' = page_i + 1
                  /\ IF page_i + 1 < Len(paths)
                     THEN /\ pc' = "page"
                          /\ UNCHANGED ret
                     ELSE /\ pc' = "done"
                          /\ ret' = Ok(<<text>> \o page_texts)
    /\ UNCHANGED <<op, paths, lines, line_j, page_results, history>>
    /\ UNCHANGED <<cfgVars, segVars, charset, decVars, accVars, preVars, mgrVars>>

\* the line loop is over: predict_page returns Ok(results); read_image joins
\* the texts; read_image_with_accuracy scores the text of read_image against
\* ground_truth; read_images / read_pdf push the text and go on to the next
\* page, or return Ok(results) after the last
EndPage ==
    /\ pc = "line"
    /\ line_j >= Len(lines)
    /\ LET text == join(texts_of(page_results))
       IN  CASE op = "predict_page" ->
                  /\ ret' = Ok(page_results)
                  /\ pc' = "done"
                  /\ UNCHANGED <<page_i, page_texts>>
             [] op = "read_image" ->
                  /\ ret' = Ok(text)
                  /\ pc' = "done"
                  /\ UNCHANGED <<page_i, page_texts>>
             [] op = "read_image_with_accuracy" ->
                  /\ ret' = Ok(with_accuracy(text, ground_truth))
                  /\ pc' = "done"
                  /\ UNCHANGED <<page_i, page_texts>>
             [] OTHER ->
                  /\ page_texts' = Append(page_texts, text)
                  /\ page_i' = page_i + 1
                  /\ IF page_i + 1 < Len(paths)
                     THEN /\ pc' = "page"
                          /\ UNCHANGED ret
                     ELSE /\ pc' = "done"
                          /\ ret' = Ok(Append(page_texts, text))
    /\ UNCHANGED <<op, paths, lines, line_j, page_results, history>>
    /\ UNCHANGED <<cfgVars, segVars, charset, decVars, accVars, preVars, mgrVars>>

Next == Call \/ PdfToImages \/ StartPage \/ PredictLine \/ EndPage

\* the characters str::trim takes off
Whitespace == {" ", "\t", NL}

RECURSIVE trim_start(_)
trim_start(str) ==
    IF str # <<>> /\ Head(str) \in Whitespace THEN trim_start(Tail(str)) ELSE str

RECURSIVE trim_end(_)
trim_end(str) ==
    IF str # <<>> /\ str[Len(str)] \in Whitespace
    THEN trim_end(SubSeq(str, 1, Len(str) - 1))
    ELSE str

\* str::trim
trim(str) == trim_end(trim_start(str))

\* charset_str of MonOcr::new: the string given to the builder, or the
\* embedded default
CharsetStrings ==
    {<<>>, <<" ", NL>>, <<"a", "b">>, <<" ", "a", "b", NL>>, <<"a", " ", "b", NL>>}

\* what MonOcr::new meets outside the program: no model file, a model file
\* the runtime cannot load, or a session
BuildOutcomes == {"no_model", "no_session", "session"}

\* builder().build() about to run MonOcr::new: charset holds charset_str
\* until new replaces it by the trimmed characters
BuildInit ==
    /\ \E cfg \in OcrConfigs :
          /\ min_line_height = cfg[1]
          /\ smooth_window = cfg[2]
    /\ charset \in CharsetStrings
    /\ op \in {"read_image", "predict_page", "read_images", "read_pdf",
              "read_image_with_accuracy"}
    /\ paths \in {<<f>> : f \in BatchFiles}
    /\ pc = "new"
    /\ page_i = 0
    /\ lines = <<>>
    /\ line_j = 0
    /\ page_results = <<>>
    /\ page_texts = <<>>
    /\ ret = [kind |-> "none", value |-> <<>>]
    /\ history = <<>>

\* MonOcr::new: the model path (an error ends construction), the charset
\* (charset_str.trim().chars().collect()), the session (an error ends
\* construction), the segmenter, Ok(Self {..}); the instance then serves a call
New ==
    /\ pc = "new"
    /\ \E outcome \in BuildOutcomes :
          CASE outcome = "no_model" ->
                  /\ pc' = "done"
                  /\ ret' = Err
                  /\ UNCHANGED charset
            [] outcome = "no_session" ->
                  /\ charset' = trim(charset)
                  /\ pc' = "done"
                  /\ ret' = Err
            [] OTHER ->
                  /\ charset' = trim(charset)
                  /\ pc' = "call"
                  /\ UNCHANGED ret
    /\ UNCHANGED <<op, paths, page_i, lines, line_j, page_results, page_texts,
                   history>>
    /\ UNCHANGED <<cfgVars, segVars, decVars, accVars, preVars, mgrVars>>

BuildNext == New \/ Call \/ PdfToImages \/ StartPage \/ PredictLine \/ EndPage

-----------------------------------------------------------------------------
(* One LineSegmenter serving several calls of segment *)

\* most calls made on one LineSegmenter
MaxCalls == 3

\* a LineSegmenter about to serve its first call
SegmenterInit ==
    /\ \E cfg \in OcrConfigs :
          /\ min_line_height = cfg[1]
          /\ smooth_window = cfg[2]
    /\ seg_page \in BatchFiles
    /\ seg_pc = "open"
    /\ smoothed_hist = <<>>
    /\ gap_threshold = F32Zero
    /\ seg_y = 0
    /\ seg_start = <<>>
    /\ seg_results = <<>>
    /\ seg_ret = "none"
    /\ seg_log = <<>>

\* the next call on a LineSegmenter that keeps results from call to call
SegmentCallKeepsResults ==
    /\ seg_pc = "done"
    /\ Len(seg_log) + 1 < MaxCalls
    /\ seg_log' = Append(seg_log, [page |-> seg_page, ret |-> seg_ret,
                                    lines |-> seg_results])
    /\ seg_page' \in BatchFiles
    /\ seg_pc' = "open"
    /\ smoothed_hist' = <<>>
    /\ gap_threshold' = F32Zero
    /\ seg_y' = 0
    /\ seg_start' = <<>>
    /\ seg_ret' = "none"
    /\ UNCHANGED seg_results
    /\ UNCHANGED <<cfgVars, charset, decVars, accVars, ocrVars, preVars, mgrVars>>

\* the next call of segment(&self, image_path) on the same LineSegmenter:
\* the image is opened anew and every local starts afresh (results is
\* Vec::new(), start is None); self is borrowed immutably, so the two
\* parameters stay
SegmentCall ==
    /\ seg_pc = "done"
    /\ Len(seg_log) + 1 < MaxCalls
    /\ seg_log' = Append(seg_log, [page |-> seg_page, ret |-> seg_ret,
                                    lines |-> seg_results])
    /\ seg_page' \in BatchFiles
    /\ seg_pc' = "open"
    /\ smoothed_hist' = <<>>
    /\ gap_threshold' = F32Zero
    /\ seg_y' = 0
    /\ seg_start' = <<>>
    /\ seg_ret' = "none"
    /\ seg_results' = <<>>
    /\ UNCHANGED <<cfgVars, charset, decVars, accVars, ocrVars, preVars, mgrVars>>

SegmenterNext == SegmentOpen \/ SegmentRow \/ SegmentLast \/ SegmentCall

-----------------------------------------------------------------------------
(* The input tensor: MonOcr::preprocess (monocr.rs) *)

\* MonOcr.target_height and MonOcr.target_width, as new sets them
target_height == 64
target_width == 1024

\* the line images preprocess is given, as (width, height)
LineSizes ==
    {<<1, 1>>, <<1, 3>>, <<3, 128>>, <<5, 128>>, <<1, 200>>, <<100, 32>>,
     <<511, 32>>, <<512, 32>>, <<1023, 64>>, <<1024, 64>>, <<1025, 64>>,
     <<2000, 60>>, <<40, 2>>}

\* what imageops::resize may return: an image of the size asked for whose gray
\* values are all 0, all 255, or run through every value from 0 to 255
ResizedKinds == {"black", "white", "ramp"}

\* imageops::resize(image, nwidth, nheight, FilterType::Triangle): the whole of
\* image at the new size
resize(image, nwidth, nheight, kind) ==
    [of |-> image, w |-> nwidth, h |-> nheight, kind |-> kind]

\* resized.get_pixel(x, y)[0]
resized_pixel(img, x, y) ==
    IF img.kind = "black" THEN 0
    ELSE IF img.kind = "white" THEN 255
    ELSE (x + y) % 256

\* scale, and new_width before the clamp
scaled_width(width, height) ==
    LET scale == f32_quot(target_height, height)
    IN  f32_round(f32_mul(f32_from(width), scale))

\* new_width without "min(self.target_width)"
new_width_unclamped(width, height) == scaled_width(width, height)

\* new_width of an image of width x height
new_width_of(width, height) == Min(scaled_width(width, height), target_width)

\* the normalisation with 127.0 for 127.5
normalize_by_127(pixel) ==
    f32_sub(f32_quot(pixel, 127), [m |-> F32Low, e |-> 1 - F32Bits])

\* (pixel as f32 / 127.5) - 1.0; the f32 quotient of pixel by 127.5 is the
\* rounded value of 2 * pixel / 255
normalize(pixel) ==
    f32_sub(f32_quot(2 * pixel, 255), [m |-> F32Low, e |-> 1 - F32Bits])

\* normalize for each gray value
normalized == [pixel \in 0..255 |-> normalize(pixel)]

\* the x loop of row y: tensor[[0, 0, y, x]] for x in 0..target_width
tensor_row_of(img, nw, y) ==
    [c \in 1..target_width |->
        IF c - 1 < nw THEN normalized[resized_pixel(img, c - 1, y)] ELSE F32One]

PreIdle ==
    /\ pre_image = <<0, 0>>
    /\ pre_pc = "idle"
    /\ new_width = 0
    /\ resized = <<>>
    /\ pre_y = 0
    /\ tensor_row = <<>>

PreInit ==
    /\ pre_image \in LineSizes
    /\ pre_pc = "call"
    /\ new_width = 0
    /\ resized = <<>>
    /\ pre_y = 0
    /\ tensor_row = <<>>

\* preprocess up to the row loop: new_width and the resized image
PreprocessCall ==
    /\ pre_pc = "call"
    /\ new_width' = new_width_of(pre_image[1], pre_image[2])
    /\ \E kind \in ResizedKinds :
          resized' = resize(pre_image, new_width', target_height, kind)
    /\ pre_y' = 0
    /\ pre_pc' = "rows"
    /\ UNCHANGED <<pre_image, tensor_row>>
    /\ UNCHANGED <<cfgVars, segVars, charset, decVars, accVars, ocrVars, mgrVars>>

\* one iteration of "for y in 0..self.target_height"
PreprocessRow ==
    /\ pre_pc = "rows"
    /\ pre_y < target_height
    /\ tensor_row' = tensor_row_of(resized, new_width, pre_y)
    /\ pre_y' = pre_y + 1
    /\ UNCHANGED <<pre_image, pre_pc, new_width, resized>>
    /\ UNCHANGED <<cfgVars, segVars, charset, decVars, accVars, ocrVars, mgrVars>>

\* preprocess returns Ok(tensor)
PreprocessReturn ==
    /\ pre_pc = "rows"
    /\ pre_y >= target_height
    /\ pre_pc' = "done"
    /\ UNCHANGED <<pre_image, new_width, resized, pre_y, tensor_row>>
    /\ UNCHANGED <<cfgVars, segVars, charset, decVars, accVars, ocrVars, mgrVars>>

PreNext == PreprocessCall \/ PreprocessRow \/ PreprocessReturn

-----------------------------------------------------------------------------
(* The model file: ModelManager (model_manager.rs) *)

\* the length of the model served, in blocks of io::copy
ModelBlocks == 2
\* most calls of get_model_path
MaxGets == 3

\* no file at model_path
NoFile == [exists |-> FALSE, len |-> 0]
\* the file at model_path after a download that wrote the whole response
WholeFile == [exists |-> TRUE, len |-> ModelBlocks]

MgrIdle ==
    /\ model_file = NoFile
    /\ mgr_pc = "idle"
    /\ mgr_ret = <<>>
    /\ mgr_calls = 0
    /\ mgr_failed = FALSE

\* a ModelManager whose cache is empty, or holds the model already
MgrInit ==
    /\ model_file \in {NoFile, WholeFile}
    /\ mgr_pc = "ready"
    /\ mgr_ret = <<>>
    /\ mgr_calls = 0
    /\ mgr_failed = FALSE

\* download_model returns Err, and get_model_path with it ("?")
DownloadFails ==
    /\ mgr_ret' = Append(mgr_ret, "err")
    /\ mgr_pc' = "ready"
    /\ mgr_failed' = TRUE

\* get_model_path up to the download: Ok(model_path) when model_path exists
GetModelPath ==
    /\ mgr_pc = "ready"
    /\ mgr_calls < MaxGets
    /\ mgr_calls' = mgr_calls + 1
    /\ IF model_file.exists
       THEN /\ mgr_ret' = Append(mgr_ret, "ok")
            /\ UNCHANGED mgr_pc
       ELSE /\ mgr_pc' = "create_dir_all"
            /\ UNCHANGED mgr_ret
    /\ UNCHANGED <<model_file, mgr_failed>>
    /\ UNCHANGED <<cfgVars, segVars, charset, decVars, accVars, ocrVars, preVars>>

\* fs::create_dir_all(parent)?
CreateDirAll ==
    /\ mgr_pc = "create_dir_all"
    /\ \/ mgr_pc' = "send" /\ UNCHANGED <<mgr_ret, mgr_failed>>
       \/ DownloadFails
    /\ UNCHANGED <<model_file, mgr_calls>>
    /\ UNCHANGED <<cfgVars, segVars, charset, decVars, accVars, ocrVars, preVars>>

\* client.get(&url).send().map_err(..)?
SendRequest ==
    /\ mgr_pc = "send"
    /\ \/ mgr_pc' = "status" /\ UNCHANGED <<mgr_ret, mgr_failed>>
       \/ DownloadFails
    /\ UNCHANGED <<model_file, mgr_calls>>
    /\ UNCHANGED <<cfgVars, segVars, charset, decVars, accVars, ocrVars, preVars>>

\* "if !response.status().is_success()": Err for a status outside 2xx
CheckStatus ==
    /\ mgr_pc = "status"
    /\ \/ mgr_pc' = "create" /\ UNCHANGED <<mgr_ret, mgr_failed>>
       \/ DownloadFails
    /\ UNCHANGED <<model_file, mgr_calls>>
    /\ UNCHANGED <<cfgVars, segVars, charset, decVars, accVars, ocrVars, preVars>>

\* fs::File::create(dest)?: the file exists from here on, empty
FileCreate ==
    /\ mgr_pc = "create"
    /\ \/ /\ model_file' = [exists |-> TRUE, len |-> 0]
          /\ mgr_pc' = "copy"
          /\ UNCHANGED <<mgr_ret, mgr_failed>>
       \/ /\ DownloadFails
          /\ UNCHANGED model_file
    /\ UNCHANGED mgr_calls
    /\ UNCHANGED <<cfgVars, segVars, charset, decVars, accVars, ocrVars, preVars>>

\* io::copy: one block of the response written to the file
CopyBlock ==
    /\ mgr_pc = "copy"
    /\ model_file.len < ModelBlocks
    /\ model_file' = [model_file EXCEPT !.len = @ + 1]
    /\ UNCHANGED <<mgr_pc, mgr_ret, mgr_calls, mgr_failed>>
    /\ UNCHANGED <<cfgVars, segVars, charset, decVars, accVars, ocrVars, preVars>>

\* io::copy(..)?: reading the response or writing the file fails before the
\* end of the response
CopyFails ==
    /\ mgr_pc = "copy"
    /\ model_file.len < ModelBlocks
    /\ DownloadFails
    /\ UNCHANGED <<model_file, mgr_calls>>
    /\ UNCHANGED <<cfgVars, segVars, charset, decVars, accVars, ocrVars, preVars>>

\* io::copy has reached the end of the response: download_model returns
\* Ok(()) and get_model_path Ok(model_path)
CopyDone ==
    /\ mgr_pc = "copy"
    /\ model_file.len = ModelBlocks
    /\ mgr_ret' = Append(mgr_ret, "ok")
    /\ mgr_pc' = "ready"
    /\ mgr_failed' = FALSE
    /\ UNCHANGED <<model_file, mgr_calls>>
    /\ UNCHANGED <<cfgVars, segVars, charset, decVars, accVars, ocrVars, preVars>>

\* the process is stopped during the download: the call returns nothing, and
\* what is on the disk stays
Interrupted ==
    /\ mgr_pc \in {"create_dir_all", "send", "status", "create", "copy"}
    /\ mgr_ret' = Append(mgr_ret, "none")
    /\ mgr_pc' = "ready"
    /\ mgr_failed' = TRUE
    /\ UNCHANGED <<model_file, mgr_calls>>
    /\ UNCHANGED <<cfgVars, segVars, charset, decVars, accVars, ocrVars, preVars>>

MgrNext ==
    \/ GetModelPath
    \/ CreateDirAll
    \/ SendRequest
    \/ CheckStatus
    \/ FileCreate
    \/ CopyBlock
    \/ CopyFails
    \/ CopyDone
    \/ Interrupted

-----------------------------------------------------------------------------
(* Specifications *)

\* one call of the API of a MonOcr
Init == OcrInit /\ OcrTruthInit /\ SegIdle /\ DecIdle /\ PreIdle /\ MgrIdle
Spec == Init /\ [][Next]_vars

\* the construction of a MonOcr, and one call of its API
InitBuild == BuildInit /\ OcrTruthInit /\ SegIdle /\ DecIdle /\ PreIdle /\ MgrIdle
SpecBuild == InitBuild /\ [][BuildNext]_vars

\* one call of LineSegmenter::segment
InitSegment == SegInit /\ charset = OcrCharset /\ DecIdle /\ AccIdle /\ OcrIdle /\ PreIdle /\ MgrIdle
SpecSegment == InitSegment /\ [][SegNext]_vars

\* one call of LineSegmenter::segment on a page of eight rows
InitSegmentLong == SegLongInit /\ charset = OcrCharset /\ DecIdle /\ AccIdle /\ OcrIdle /\ PreIdle /\ MgrIdle
SpecSegmentLong == InitSegmentLong /\ [][SegNext]_vars

\* one LineSegmenter serving up to MaxCalls calls of segment
InitSegmenter == SegmenterInit /\ charset = OcrCharset /\ DecIdle /\ AccIdle /\ OcrIdle /\ PreIdle /\ MgrIdle
SpecSegmenter == InitSegmenter /\ [][SegmenterNext]_vars

\* one call of MonOcr::decode_owned
InitDecode == DecInit /\ min_line_height = 0 /\ smooth_window = 0
                /\ SegIdle /\ AccIdle /\ OcrIdle /\ PreIdle /\ MgrIdle
SpecDecode == InitDecode /\ [][DecNext]_vars

\* one call of calculate_accuracy
InitScore == AccInit /\ min_line_height = 0 /\ smooth_window = 0
                /\ charset = OcrCharset /\ SegIdle /\ DecIdle /\ OcrIdle /\ PreIdle /\ MgrIdle
SpecScore == InitScore /\ [][AccNext]_vars

\* one call of levenshtein
InitLevenshtein == LevInit /\ min_line_height = 0 /\ smooth_window = 0
                /\ charset = OcrCharset /\ SegIdle /\ DecIdle /\ OcrIdle /\ PreIdle /\ MgrIdle
SpecLevenshtein == InitLevenshtein /\ [][LevNext]_vars

\* one call of preprocess
InitPreprocess == PreInit /\ min_line_height = 0 /\ smooth_window = 0
                /\ charset = OcrCharset /\ SegIdle /\ DecIdle /\ AccIdle /\ OcrIdle
                /\ MgrIdle
SpecPreprocess == InitPreprocess /\ [][PreNext]_vars

\* one ModelManager serving up to MaxGets calls of get_model_path
InitModel == MgrInit /\ min_line_height = 0 /\ smooth_window = 0
                /\ charset = OcrCharset /\ SegIdle /\ DecIdle /\ AccIdle /\ OcrIdle
                /\ PreIdle
SpecModel == InitModel /\ [][MgrNext]_vars

-----------------------------------------------------------------------------
(* Properties of segment (SpecSegment) *)

SegHeight == Height(seg_page)
SegOk == seg_pc = "done" /\ seg_ret = "ok"

\* row y is a text row: its smoothed density is above the gap threshold
IsTextRow(y) == f32_gt(smoothed_hist[y + 1], gap_threshold)

\* row y of the page holds at least one ink pixel (a gray value below 128)
IsInkRow(y) == \E x \in 0..(PageWidth - 1) : RowPixel(seg_page.rows[y + 1], PageWidth, x) < 128

\* the maximal runs [s, e) of rows satisfying P, as a set of pairs
RunsOf(P(_)) ==
    {r \in (0..SegHeight) \X (0..SegHeight) :
        /\ r[1] < r[2]
        /\ \A y \in r[1]..(r[2] - 1) : P(y)
        /\ (r[1] = 0 \/ ~P(r[1] - 1))
        /\ (r[2] = SegHeight \/ ~P(r[2]))}

RECURSIVE SortedRuns(_)
\* a set of disjoint runs as a sequence, top to bottom
SortedRuns(R) ==
    IF R = {} THEN <<>>
    ELSE LET first == CHOOSE r \in R : \A o \in R : r[1] <= o[1]
         IN  <<first>> \o SortedRuns(R \ {first})

\* the rows (top, height) a line of the run [s, e) occupies once padded
RunRows(r) ==
    LET top == IF r[1] >= 4 THEN r[1] - 4 ELSE 0
        bottom == IF r[2] + 4 <= SegHeight THEN r[2] + 4 ELSE SegHeight
    IN  <<top, bottom - top>>

\* C4: every BBox returned by segment is a non-empty box inside the page:
\* w >= 1, h >= 1, x + w <= page width and y + h <= page height.
C4_BBoxInsidePage ==
    \A i \in 1..Len(seg_results) :
        LET b == seg_results[i].bbox
        IN  /\ b.w >= 1 /\ b.h >= 1
            /\ b.x >= 0 /\ b.y >= 0
            /\ b.x + b.w <= Width(seg_page)
            /\ b.y + b.h <= Height(seg_page)

\* a returned page with a box clamped at the right edge and a box that
\* touches no edge on the left, the right or the top
C4_Witness ==
    /\ SegOk
    /\ \E i \in 1..Len(seg_results) : seg_results[i].bbox.x + seg_results[i].bbox.w = PageWidth
    /\ \E i \in 1..Len(seg_results) :
          LET b == seg_results[i].bbox
          IN  b.x > 0 /\ b.x + b.w < PageWidth /\ b.y > 0

\* C5 as stated: consecutive returned lines have strictly increasing bbox.y.
C5_StrictlyIncreasingTop ==
    \A i \in 1..(Len(seg_results) - 1) :
        seg_results[i].bbox.y < seg_results[i + 1].bbox.y

\* C5 amended: consecutive returned lines a, b have a.bbox.y < b.bbox.y,
\* unless the padding clamps both tops to row 0 (then a.bbox.y = b.bbox.y = 0).
C5_IncreasingTopUnlessClamped ==
    \A i \in 1..(Len(seg_results) - 1) :
        LET a == seg_results[i].bbox
            b == seg_results[i + 1].bbox
        IN  a.y < b.y \/ (a.y = 0 /\ b.y = 0)

\* a returned page with three lines: the first two clamped to row 0, the
\* third strictly below
C5_Witness ==
    /\ SegOk
    /\ Len(seg_results) = 3
    /\ seg_results[1].bbox.y = 0
    /\ seg_results[2].bbox.y = 0
    /\ seg_results[3].bbox.y > 0

\* C6: the returned lines are, in order, exactly the lines of the maximal
\* runs [start, end) of text rows with end - start >= min_line_height (and
\* some ink), whether the run is closed by a gap row or by the bottom edge;
\* a shorter run gives no line.
C6_LinesAreTallRuns ==
    SegOk =>
        LET tall == {r \in RunsOf(IsTextRow) :
                        /\ r[2] - r[1] >= min_line_height
                        /\ \E y \in r[1]..(r[2] - 1) : IsInkRow(y)}
        IN  \E runs \in {SortedRuns(tall)} :
                /\ Len(seg_results) = Len(runs)
                /\ \A i \in 1..Len(runs) :
                      <<seg_results[i].bbox.y, seg_results[i].bbox.h>> = RunRows(runs[i])

\* a returned page where a short run closed by a gap and a short trailing
\* run were both dropped and a tall run gave a line
C6_Witness ==
    /\ SegOk
    /\ min_line_height = 2
    /\ Len(seg_results) = 1
    /\ \E r \in RunsOf(IsTextRow) : r[2] - r[1] < min_line_height /\ r[2] < SegHeight
    /\ \E r \in RunsOf(IsTextRow) : r[2] - r[1] < min_line_height /\ r[2] = SegHeight

\* the ink rows of the page form exactly two bands, each taller than
\* min_line_height, separated by more than smooth_window ink-free rows
TwoBands ==
    \E bands \in {SortedRuns(RunsOf(IsInkRow))} :
        /\ Len(bands) = 2
        /\ bands[1][2] - bands[1][1] > min_line_height
        /\ bands[2][2] - bands[2][1] > min_line_height
        /\ bands[2][1] - bands[1][2] > smooth_window

\* segment returned exactly two lines, the first over the upper band and the
\* second over the lower band
TwoLinesUpperFirst ==
    LET bands == SortedRuns(RunsOf(IsInkRow))
        Covers(b, r) == b.y <= r[1] /\ b.y + b.h >= r[2]
    IN  /\ Len(seg_results) = 2
        /\ Covers(seg_results[1].bbox, bands[1])
        /\ Covers(seg_results[2].bbox, bands[2])
        /\ seg_results[1].bbox.y + seg_results[1].bbox.h
              <= seg_results[2].bbox.y + seg_results[2].bbox.h

\* C8 as stated: a page of two bands, each taller than min_line_height and
\* more than smooth_window ink-free rows apart, gives exactly 2 lines, the
\* upper band first.
C8_TwoBandsTwoLines ==
    (SegOk /\ TwoBands) => TwoLinesUpperFirst

\* C8 amended: ... and every ink row is a text row (its smoothed density is
\* above 0.05 times the mean positive smoothed density).
C8_TwoTextBandsTwoLines ==
    (SegOk /\ TwoBands /\ \A y \in 0..(SegHeight - 1) : IsInkRow(y) => IsTextRow(y))
        => TwoLinesUpperFirst

\* a smoothed page with a dense band above a sparse band, both detected
C8_Witness ==
    /\ SegOk /\ TwoBands /\ TwoLinesUpperFirst
    /\ smooth_window = 3
    /\ \E y \in 0..(SegHeight - 1) : seg_page.rows[y + 1] = "sparse"
    /\ \E y \in 0..(SegHeight - 1) : seg_page.rows[y + 1] = "dense"

\* the columns with an ink pixel in the rows of the run [s, e)
RunInkColumns(r) ==
    {x \in 0..(PageWidth - 1) :
        \E y \in r[1]..(r[2] - 1) : RowPixel(seg_page.rows[y + 1], PageWidth, x) < 128}

\* C19: the BBox of the line of a run of rows [start, end) with ink columns
\* x_min..x_max covers the rows start - 4 .. end + 3 and the columns
\* x_min - 4 .. x_max + 4: four more than the extent on each side, a side
\* that would leave the page ending at the page edge instead.
C19_FourPixelsOnEachSide ==
    SegOk =>
        LET tall == {r \in RunsOf(IsTextRow) :
                        /\ r[2] - r[1] >= min_line_height
                        /\ \E y \in r[1]..(r[2] - 1) : IsInkRow(y)}
            runs == SortedRuns(tall)
        IN  /\ Len(seg_results) = Len(runs)
            /\ \A i \in 1..Len(runs) :
                  LET bbox == seg_results[i].bbox
                      x_min == SetMin(RunInkColumns(runs[i]))
                      x_max == SetMax(RunInkColumns(runs[i]))
                      start == runs[i][1]
                      end == runs[i][2]
                  IN  /\ bbox.y = IF start >= 4 THEN start - 4 ELSE 0
                      /\ bbox.y + bbox.h = IF end + 4 <= SegHeight THEN end + 4 ELSE SegHeight
                      /\ bbox.x = IF x_min >= 4 THEN x_min - 4 ELSE 0
                      /\ bbox.x + bbox.w = IF x_max + 1 + 4 <= PageWidth
                                           THEN x_max + 1 + 4 ELSE PageWidth

\* the ink pixels of a row of each kind
KindInk ==
    [kind \in RowKinds |->
        Cardinality({x \in 0..(PageWidth - 1) : RowPixel(kind, PageWidth, x) < 128})]

\* the raw histogram: the ink pixels of row y of the page
RawHist(y) == KindInk[seg_page.rows[y + 1]]

RECURSIVE SumRaw(_, _)
SumRaw(lo, hi) == IF lo > hi THEN 0 ELSE RawHist(lo) + SumRaw(lo + 1, hi)

\* v is the mean of the raw histogram over the rows of lo..hi that are on
\* the page, as an f32: no further from the mean than half a unit of its
\* last place
IsMeanOver(v, lo, hi) ==
    LET a == Max(lo, 0)
        b == Min(hi, SegHeight - 1)
        count == b - a + 1
        sum == SumRaw(a, b)
        twice == 2 * count * v.m - 2 * sum * 2^(0 - v.e)
    IN  /\ a <= b
        /\ IF sum = 0 THEN v = F32Zero
           ELSE /\ v.m >= F32Low /\ v.m < F32Top
                /\ v.e <= 0
                /\ 0 - count <= twice /\ twice <= count

\* segment has computed smoothed_hist
Smoothed == seg_pc \in {"scan", "last", "done"} /\ seg_page.decodable

\* C20: when smooth_window > 1, each smoothed value is the mean of the raw
\* histogram over the in-bounds rows of a window of smooth_window rows around
\* its row, as centered as a window of that width can be (the rows above
\* and below differ by at most one); when smooth_window <= 1 the smoothed
\* histogram is the raw one.
C20_WindowOfSmoothWindowRows ==
    Smoothed =>
        /\ Len(smoothed_hist) = SegHeight
        /\ \A i \in 0..(SegHeight - 1) :
              IF smooth_window > 1
              THEN \E lo \in (i - smooth_window + 1)..i :
                      LET hi == lo + smooth_window - 1
                      IN  /\ (i - lo) - (hi - i) \in {-1, 0, 1}
                          /\ IsMeanOver(smoothed_hist[i + 1], lo, hi)
              ELSE smoothed_hist[i + 1] = f32_from(RawHist(i))

\* C20 (amended): when smooth_window > 1, each smoothed value is the mean of
\* the raw histogram over the in-bounds rows of [i - half, i + half] with
\* half = smooth_window / 2 rounded down: smooth_window rows when
\* smooth_window is odd, smooth_window + 1 rows when it is even; when
\* smooth_window <= 1 the smoothed histogram is the raw one.
C20_WindowOfTwoHalves ==
    Smoothed =>
        /\ Len(smoothed_hist) = SegHeight
        /\ \A i \in 0..(SegHeight - 1) :
              IF smooth_window > 1
              THEN IsMeanOver(smoothed_hist[i + 1], i - smooth_window \div 2,
                              i + smooth_window \div 2)
              ELSE smoothed_hist[i + 1] = f32_from(RawHist(i))

\* smooth_window is 2 and the middle row of a page of three rows, a blank
\* one between a dense and a sparse one, has the mean of all three
C20_Witness ==
    /\ Smoothed
    /\ smooth_window = 2
    /\ seg_page.rows = <<"dense", "blank", "sparse">>
    /\ IsMeanOver(smoothed_hist[2], 0, 2)
    /\ smoothed_hist[2] # f32_from((KindInk["dense"] + KindInk["sparse"]) \div 2)
    /\ smoothed_hist[1] = f32_from(KindInk["dense"] \div 2)

\* the maximal runs of text rows that pass the height filter
TallRuns == {r \in RunsOf(IsTextRow) : r[2] - r[1] >= min_line_height}

\* the run of rows [s, e) holds an ink pixel
HasInk(r) == \E y \in r[1]..(r[2] - 1) : IsInkRow(y)

\* C22: when segment has returned Ok, there is one line for each region
\* that passed the height filter and holds an ink pixel, in order, and
\* that line has an ink pixel of the rows of its region inside its box; a
\* region that passed the filter without an ink pixel has no line, and
\* segment has not failed on it.
C22_LinesHoldInk ==
    (seg_pc = "done" /\ seg_page.decodable) =>
        /\ seg_ret = "ok"
        /\ \E inked \in {SortedRuns({r \in TallRuns : HasInk(r)})} :
               /\ Len(seg_results) = Len(inked)
               /\ \A i \in 1..Len(inked) :
                     LET bbox == seg_results[i].bbox
                     IN  \E y \in inked[i][1]..(inked[i][2] - 1) :
                             \E x \in bbox.x..(bbox.x + bbox.w - 1) :
                                 /\ y \in bbox.y..(bbox.y + bbox.h - 1)
                                 /\ RowPixel(seg_page.rows[y + 1], PageWidth, x) < 128

\* segment has returned one line on a page with two regions that passed the
\* height filter, one of them without an ink pixel
C22_Witness ==
    /\ SegOk
    /\ Len(seg_results) = 1
    /\ Cardinality(TallRuns) = 2
    /\ \E r \in TallRuns : ~HasInk(r)

RECURSIVE Product(_)
Product(n) == IF n <= 1 THEN 1 ELSE n * Product(n - 1)

\* a common multiple of the numbers of rows a window can hold
CountScale == Product(MaxSmoothWindow + 2)

\* CountScale times the smoothed density of row y as the real number it
\* stands for: the mean of the raw histogram over the in-bounds rows of
\* the window of y, or the raw value when there is no smoothing
ScaledDensity(y) ==
    LET half == IF smooth_window > 1 THEN smooth_window \div 2 ELSE 0
        a == Max(y - half, 0)
        b == Min(y + half, SegHeight - 1)
    IN  SumRaw(a, b) * (CountScale \div (b - a + 1))

RECURSIVE SumScaledDensity(_)
\* the sum of ScaledDensity over the rows 0 .. y - 1
SumScaledDensity(y) ==
    IF y = 0 THEN 0 ELSE ScaledDensity(y - 1) + SumScaledDensity(y - 1)

\* C21: once the threshold is computed, row y is a text row for the row
\* loop exactly when its smoothed density is greater than 0.05 times the
\* mean of the positive smoothed densities (20 * n * density > their sum,
\* n the number of positive ones); and while the rows are scanned, a run is
\* open exactly when the row before y is a text row, its start being the
\* first row of the maximal run of text rows that ends there.
C21_TextRowsAndRuns ==
    (Smoothed /\ SumScaledDensity(SegHeight) > 0) =>
        LET positive == {y \in 0..(SegHeight - 1) : ScaledDensity(y) > 0}
        IN  /\ \A y \in 0..(SegHeight - 1) :
                  IsTextRow(y) <=>
                      20 * Cardinality(positive) * ScaledDensity(y)
                          > SumScaledDensity(SegHeight)
            /\ (seg_pc \in {"scan", "last"}) =>
                  IF seg_y > 0 /\ IsTextRow(seg_y - 1)
                  THEN /\ seg_start # <<>>
                       /\ \A y \in seg_start[1]..(seg_y - 1) : IsTextRow(y)
                       /\ seg_start[1] = 0 \/ ~IsTextRow(seg_start[1] - 1)
                  ELSE seg_start = <<>>

-----------------------------------------------------------------------------
(* Properties of the page and batch pipeline (Spec) *)

\* the inference calls of history made for page i, in order
InferEventsOf(i) ==
    SelectSeq(history, LAMBDA e : e.ev = "infer" /\ e.page = i)

\* the pages segment was called on, in order
SegmentedPages ==
    LET evs == SelectSeq(history, LAMBDA e : e.ev = "segment")
    IN  [k \in 1..Len(evs) |-> evs[k].page]

\* the pipeline of page i has failed: its file could not be decoded when
\* segment was called on it, or an inference call on one of its lines failed
PageFailed(i) ==
    \/ \E k \in 1..Len(history) :
          history[k].ev = "segment" /\ history[k].page = i /\ ~paths[i].decodable
    \/ \E k \in 1..Len(history) :
          history[k].ev = "infer" /\ history[k].page = i /\ ~history[k].ok

\* C1: in a batch (read_images, the page loop of read_pdf), once the pipeline
\* of page i has failed the call has returned an error that carries no text,
\* and no page after i has been segmented or inferred.
C1_BatchAbortsOnFirstFailure ==
    IsBatch =>
        \A i \in 1..Len(paths) :
            PageFailed(i) =>
                /\ pc = "done"
                /\ ret.kind = "err"
                /\ ret.value = <<>>
                /\ \A k \in 1..Len(history) : history[k].page <= i

\* a batch of three pages whose second page failed in inference after the
\* first page gave a non-empty text
C1_Witness ==
    /\ IsBatch
    /\ Len(paths) = 3
    /\ PageFailed(2)
    /\ Len(page_texts) = 1 /\ page_texts[1] # <<>>
    /\ \E k \in 1..Len(history) : history[k].ev = "infer" /\ ~history[k].ok
    /\ ret.kind = "err"

\* C2: when read_images returns Ok over n paths, it returns n texts, the
\* pages were processed one after another in the order supplied (each page
\* segmented once, then its lines inferred, before the next page), and the
\* i-th text is the page text of the i-th path: the texts decoded for the
\* lines segment finds on it, joined.
C2_ReadImagesInOrder ==
    (op = "read_images" /\ ret.kind = "ok") =>
        /\ Len(ret.value) = Len(paths)
        /\ SegmentedPages = [k \in 1..Len(paths) |-> k]
        /\ \A k \in 1..(Len(history) - 1) : history[k].page <= history[k + 1].page
        /\ \A i \in 1..Len(paths) :
              LET evs == InferEventsOf(i)
              IN  /\ Len(evs) = Len(segment(paths[i], min_line_height, smooth_window).lines)
                  /\ ret.value[i] = join([k \in 1..Len(evs) |-> evs[k].text])

\* read_images returned three texts, all different
C2_Witness ==
    /\ op = "read_images" /\ ret.kind = "ok"
    /\ Len(ret.value) = 3
    /\ ret.value[1] # ret.value[2]
    /\ ret.value[2] # ret.value[3]
    /\ ret.value[1] # ret.value[3]

RECURSIVE SplitLines(_)
\* the pieces of a text between its line separators
SplitLines(t) ==
    IF \A k \in 1..Len(t) : t[k] # NL THEN <<t>>
    ELSE LET cut == CHOOSE k \in 1..Len(t) : t[k] = NL /\ \A m \in 1..(k - 1) : t[m] # NL
         IN  <<SubSeq(t, 1, cut - 1)>> \o SplitLines(SubSeq(t, cut + 1, Len(t)))

\* C3: predict_page returns one LineResult per line returned by the
\* segmenter, in segmentation order, each with the BBox of its line and the
\* text decoded for it; the text of read_image is these texts, in that
\* order, separated by single newlines (an empty text included).
C3_OneResultPerLine ==
    LET evs == InferEventsOf(1)
        seg_lines == segment(paths[1], min_line_height, smooth_window).lines
    IN  /\ (op = "predict_page" /\ ret.kind = "ok") =>
              /\ Len(ret.value) = Len(seg_lines)
              /\ Len(evs) = Len(seg_lines)
              /\ \A k \in 1..Len(seg_lines) :
                    /\ ret.value[k].bbox = seg_lines[k].bbox
                    /\ ret.value[k].text = evs[k].text
                    /\ evs[k].line = k
        /\ (op = "read_image" /\ ret.kind = "ok") =>
              /\ Len(evs) = Len(seg_lines)
              /\ \A k \in 1..Len(evs) : evs[k].line = k
              /\ IF evs = <<>> THEN ret.value = <<>>
                 ELSE SplitLines(ret.value) = [k \in 1..Len(evs) |-> evs[k].text]

\* read_image returned the text of two lines, the first of them empty
C3_Witness ==
    /\ op = "read_image" /\ ret.kind = "ok"
    /\ Len(InferEventsOf(1)) = 2
    /\ ret.value = <<NL, "a", "b">>

\* the file is an image without a gray value below 128
NoInk(f) ==
    /\ f.decodable
    /\ \A k \in 1..Len(f.rows) : \A x \in 0..(f.w - 1) : RowPixel(f.rows[k], f.w, x) >= 128

\* C7: on a page with no ink pixel segment returns an empty list, not an
\* error, and read_image succeeds with the empty string without any
\* inference call.
C7_NoInkPageGivesEmptyText ==
    (op \in {"read_image", "predict_page"} /\ NoInk(paths[1])) =>
        /\ (pc \in {"line", "done"}) =>
              /\ Len(history) >= 1
              /\ history[1] = SegmentEvent(1, TRUE)
              /\ lines = <<>>
        /\ \A k \in 1..Len(history) : history[k].ev # "infer"
        /\ (pc = "done") => ret = Ok(<<>>)

\* read_image has returned on a page of three rows without ink
C7_Witness ==
    /\ op = "read_image" /\ pc = "done"
    /\ NoInk(paths[1]) /\ Len(paths[1].rows) = 3
    /\ ret = Ok(<<>>)

\* C14: when read_image_with_accuracy has returned, then either the pipeline
\* of its page failed and it returned the error, with no OcrResult, or it
\* returned an OcrResult whose text is the text read_image returns (the texts
\* decoded for the lines of the page, joined by newlines) and whose accuracy
\* is the score of that text against ground_truth.
C14_TextAndAccuracy ==
    (op = "read_image_with_accuracy" /\ pc = "done") =>
        LET evs == InferEventsOf(1)
        IN  IF PageFailed(1)
            THEN ret = Err
            ELSE /\ ret.kind = "ok"
                 /\ ret.value.text = join([k \in 1..Len(evs) |-> evs[k].text])
                 /\ ret.value.accuracy = calculate_accuracy(ret.value.text, ground_truth)

\* read_image_with_accuracy read "ab", newline, "ab" where the ground truth
\* is "ab": distance 3 over 5 characters, 40.00
C14_Witness ==
    /\ op = "read_image_with_accuracy" /\ pc = "done"
    /\ ground_truth = <<"a", "b">>
    /\ ret = Ok([text |-> <<"a", "b", NL, "a", "b">>, accuracy |-> 4000])

\* the lines segment returns for page i
LinesOf(i) == segment(paths[i], min_line_height, smooth_window).lines

\* the last thing the call did was a call of segment that returned Ok
JustSegmented == history # <<>> /\ history[Len(history)].ev = "segment"
                    /\ history[Len(history)].ok

\* C17: every inference call made for a page comes after the call of segment
\* on that page has returned Ok; when segment has returned, the line loop
\* has the whole list of the lines of the page before its first inference
\* call, and the list stays as it is until the next page is segmented.
C17_SegmentationBeforeInference ==
    /\ [](/\ \A k \in 1..Len(history) :
               history[k].ev = "infer" =>
                   \E m \in 1..(k - 1) : history[m] = SegmentEvent(history[k].page, TRUE)
          /\ (pc = "line") =>
                /\ \E m \in 1..Len(history) : history[m] = SegmentEvent(page_i + 1, TRUE)
                /\ \A k \in 1..Len(history) :
                       (history[k].ev = "infer" /\ history[k].page = page_i + 1) =>
                           history[k].line \in 1..Len(lines)
          /\ (JustSegmented /\ pc = "line") =>
                /\ line_j = 0
                /\ lines = LinesOf(page_i + 1))
    /\ [][pc # "page" => lines' = lines]_vars

\* the second line of the second page of a batch has been inferred
C17_Witness ==
    /\ IsBatch /\ pc = "line" /\ page_i = 1 /\ line_j = 2
    /\ history[Len(history)].ev = "infer"
    /\ history[Len(history)].page = 2 /\ history[Len(history)].line = 2

\* the page the line loop is on, or was on last
LoopPage == IF pc = "line" THEN page_i + 1
            ELSE IF history = <<>> THEN 0
            ELSE history[Len(history)].page

\* C18: the inference calls made for a page are one per line, for lines 1,
\* 2, 3, .. of the list segment returned (their tops never going up), each
\* made after the one before has returned, none for the same line twice;
\* when the line loop of a page has ended without an error there was one
\* call for every line; and a failed call is the last thing the call of the
\* API did: it returned the error.
C18_SequentialInference ==
    /\ \A i \in 1..Len(paths) :
          LET evs == InferEventsOf(i)
          IN  \A k \in 1..Len(evs) : evs[k].line = k
    /\ LoopPage > 0 =>
          LET evs == InferEventsOf(LoopPage)
          IN  /\ evs # <<>> => Len(evs) <= Len(lines)
              /\ \A k \in 1..(Len(lines) - 1) : lines[k].bbox.y <= lines[k + 1].bbox.y
              /\ (pc = "line") => Len(evs) = line_j
              /\ (pc # "line" /\ ret.kind # "err") => Len(evs) = Len(lines)
    /\ \A k \in 1..Len(history) :
          (history[k].ev = "infer" /\ ~history[k].ok) =>
              /\ k = Len(history)
              /\ pc = "done"
              /\ ret = Err

\* the first line of a page was inferred, and the call on its second line
\* failed
C18_Witness ==
    /\ Len(history) = 3
    /\ history[2].ev = "infer" /\ history[2].line = 1 /\ history[2].ok
    /\ history[3].ev = "infer" /\ history[3].line = 2 /\ ~history[3].ok
    /\ pc = "done" /\ ret = Err

-----------------------------------------------------------------------------
(* Properties of a LineSegmenter over several calls (SpecSegmenter) *)

\* the calls served so far, the one that has just returned included
CallsServed ==
    IF seg_pc = "done"
    THEN Append(seg_log, [page |-> seg_page, ret |-> seg_ret, lines |-> seg_results])
    ELSE seg_log

\* C16: any two calls of segment the same LineSegmenter has served on the
\* same page returned the same thing (the same error, or the same list of
\* lines: same boxes, same pixels) whatever it was called on in between, the
\* two parameters never change, and no step of a call changes the page image.
C16_SegmentDependsOnlyOnInput ==
    /\ [](\A i, j \in 1..Len(CallsServed) :
            CallsServed[i].page = CallsServed[j].page =>
                /\ CallsServed[i].ret = CallsServed[j].ret
                /\ CallsServed[i].lines = CallsServed[j].lines)
    /\ [][/\ min_line_height' = min_line_height
          /\ smooth_window' = smooth_window
          /\ seg_pc # "done" => seg_page' = seg_page]_vars

\* the third call has returned on the page of the first, two lines both
\* times, after a call on a page with one line
C16_Witness ==
    /\ seg_pc = "done" /\ Len(seg_log) = 2
    /\ seg_log[1].page = TwoBandPage /\ Len(seg_log[1].lines) = 2
    /\ seg_log[2].page = OneBandPage /\ Len(seg_log[2].lines) = 1
    /\ seg_page = TwoBandPage /\ seg_results = seg_log[1].lines

-----------------------------------------------------------------------------
(* Properties of the construction (SpecBuild) *)

\* C15: once MonOcr::new has run on a charset string that is empty after
\* trimming, construction has failed: the builder returned an error, and no
\* page was segmented or inferred.
C15_EmptyCharsetFailsConstruction ==
    (pc # "new" /\ trim(charset) = <<>>) =>
        /\ pc = "done"
        /\ ret = Err
        /\ history = <<>>

-----------------------------------------------------------------------------
(* Properties of decode_owned (SpecDecode) *)

\* the logit of class c at timestep t
Logit(t, c) == dec_data[t * dec_shape[3] + c + 1]

\* the argmax class of timestep t: the lowest class holding the largest logit
ArgmaxClass(t) ==
    CHOOSE k \in 0..(dec_shape[3] - 1) :
        /\ \A c \in 0..(dec_shape[3] - 1) : Logit(t, c) <= Logit(t, k)
        /\ \A c \in 0..(k - 1) : Logit(t, c) < Logit(t, k)

\* the argmax classes of the first n timesteps
ArgmaxSeq(n) == [k \in 1..n |-> ArgmaxClass(k - 1)]

RECURSIVE CollapseRuns(_)
\* each run of equal consecutive elements reduced to one element
CollapseRuns(ks) ==
    IF Len(ks) <= 1 THEN ks
    ELSE IF ks[1] = ks[2] THEN CollapseRuns(Tail(ks))
    ELSE <<ks[1]>> \o CollapseRuns(Tail(ks))

\* the symbols of a class sequence: blanks (class 0) deleted, class k gives
\* charset[k - 1] (the k-th symbol), a class without a symbol gives none
SymbolsOf(ks) ==
    LET kept == SelectSeq(ks, LAMBDA k : k # 0 /\ k <= Len(charset))
    IN  [i \in 1..Len(kept) |-> charset[kept[i]]]

\* C9: decode gives the charset symbols of the argmax class sequence after
\* collapsing each run of equal consecutive classes and then deleting the
\* blanks (so far as the timestep loop has come); a non-blank class at two
\* consecutive timesteps gives one symbol, the same class on both sides of
\* one blank timestep gives two, and an all-blank sequence gives the empty
\* string.
C9_CtcCollapse ==
    /\ decoded = SymbolsOf(CollapseRuns(ArgmaxSeq(dec_t)))
    /\ dec_pc = "done" =>
          LET ks == ArgmaxSeq(dec_shape[2])
          IN  /\ (\A i \in 1..Len(ks) : ks[i] = 0) => decoded = <<>>
              /\ (ks = <<1, 1>>) => decoded = <<charset[1]>>
              /\ (ks = <<1, 0, 1>>) => decoded = <<charset[1], charset[1]>>

\* decode_owned has returned "aa" for the classes 1, blank, 1
C9_Witness ==
    /\ dec_pc = "done"
    /\ ArgmaxSeq(dec_shape[2]) = <<1, 0, 1>>
    /\ decoded = <<"a", "a">>

\* the classes holding the largest logit of timestep t
TiedClasses(t) ==
    {k \in 0..(dec_shape[3] - 1) : \A c \in 0..(dec_shape[3] - 1) : Logit(t, c) <= Logit(t, k)}

\* C23: when several classes share the largest logit of a timestep, the class
\* decode takes for that timestep (the one it keeps in prev_idx and whose symbol
\* it emits) is the lowest of them.
C23_TiesGoToLowestClass ==
    dec_t > 0 =>
        LET tied == TiedClasses(dec_t - 1)
        IN  /\ prev_idx \in tied
            /\ \A k \in tied : prev_idx <= k
            /\ (dec_t = 1 /\ prev_idx # 0 /\ prev_idx <= Len(charset)) =>
                  decoded = <<charset[prev_idx]>>

\* the first timestep had its largest logit at the classes 1 and 2, and decode
\* has emitted the symbol of class 1
C23_Witness ==
    /\ dec_t = 1
    /\ TiedClasses(0) = {1, 2}
    /\ prev_idx = 1
    /\ decoded = <<charset[1]>>

\* a timestep whose argmax class has no symbol in the charset
NoSymbol(t) == ArgmaxClass(t) > Len(charset)

\* C24: every timestep leaves prev_idx at its argmax class, emitted or not; a
\* timestep whose argmax class is above the charset length emits nothing, does
\* not stop the loop, and still counts as a change of class: the same class
\* before and after it is emitted twice, as around a blank.
C24_PrevAlwaysUpdated ==
    /\ [](dec_t > 0 => prev_idx = ArgmaxClass(dec_t - 1))
    /\ []((dec_pc = "done" /\ dec_shape[2] = 3 /\ ArgmaxClass(0) = 1
              /\ ArgmaxClass(2) = 1 /\ (NoSymbol(1) \/ ArgmaxClass(1) = 0)) =>
             decoded = <<charset[1], charset[1]>>)
    /\ [][(dec_pc = "loop" /\ dec_t < dec_shape[2] /\ NoSymbol(dec_t)) =>
             /\ decoded' = decoded
             /\ dec_t' = dec_t + 1
             /\ dec_pc' = "loop"]_vars

\* decode_owned has returned "aa" for the classes 1, 2, 1 with the charset "a"
C24_Witness ==
    /\ dec_pc = "done"
    /\ charset = <<"a">>
    /\ ArgmaxSeq(dec_shape[2]) = <<1, 2, 1>>
    /\ prev_idx = 1
    /\ decoded = <<"a", "a">>

-----------------------------------------------------------------------------
(* Properties of calculate_accuracy (SpecScore) *)

Distance == matrix_row[Len(predicted) + 1]
MaxLen == Max(Len(predicted), Len(ground_truth))
BothNonEmpty == predicted # <<>> /\ ground_truth # <<>>

\* C11: calculate_accuracy of two empty strings returns 100.0.
C11_BothEmptyScoresHundred ==
    (acc_pc = "done" /\ predicted = <<>> /\ ground_truth = <<>>) => accuracy = 10000

\* the positions where two strings of one length differ
Differences(s, t) == {k \in 1..Len(s) : s[k] # t[k]}

\* C12: for non-empty predicted and ground_truth the score is
\* (1 - d / max(len(predicted), len(ground_truth))) * 100 rounded half-up to
\* 2 decimal places, d being the Levenshtein distance: in hundredths, the
\* integer a with a - 1/2 <= (max - d) * 10000 / max < a + 1/2.  Identical
\* strings score 100.00 and one substitution in a 5-character string 80.00.
C12_ScoreIsRoundedFormula ==
    (acc_pc = "done" /\ BothNonEmpty) =>
        /\ 2 * accuracy * MaxLen <= 2 * (MaxLen - Distance) * 10000 + MaxLen
        /\ 2 * (MaxLen - Distance) * 10000 + MaxLen < 2 * (accuracy + 1) * MaxLen
        /\ (predicted = ground_truth) => accuracy = 10000
        /\ (Len(predicted) = 5 /\ Len(ground_truth) = 5
              /\ Cardinality(Differences(predicted, ground_truth)) = 1) => accuracy = 8000

\* C13: for every pair of non-empty strings the score is within [0, 100],
\* the distance being at most max(len(predicted), len(ground_truth)).
C13_ScoreWithinRange ==
    (acc_pc = "done" /\ BothNonEmpty) =>
        /\ Distance <= MaxLen
        /\ 0 <= accuracy /\ accuracy <= 10000

\* calculate_accuracy has returned 0.0 for two strings of different lengths
\* without a symbol in common, and the distance is the greater length
C13_Witness ==
    /\ acc_pc = "done"
    /\ predicted = <<"a", "a">> /\ ground_truth = <<"b", "b", "b">>
    /\ Distance = 3
    /\ accuracy = 0

-----------------------------------------------------------------------------
(* Properties of levenshtein (SpecLevenshtein) *)

LevDone == acc_pc = "lev_done"

\* C25: levenshtein(a, b) = levenshtein(b, a): the distance returned for
\* (s1, s2) is the one the table of (s2, s1) ends with.
C25_LevenshteinSymmetric ==
    LevDone => Distance = levenshtein(ground_truth, predicted)

\* levenshtein has returned 2 for "ab" and "b" + "ab" reversed, two strings of
\* different lengths
C25_Witness ==
    /\ LevDone
    /\ predicted = <<"a", "b">> /\ ground_truth = <<"b", "b", "a">>
    /\ Distance = 2
    /\ levenshtein(ground_truth, predicted) = 2

\* the code points an edit may insert: those of the strings and one more
EditAlphabet == Alphabet \cup {"c"}

\* the strings one single-code-point insertion, deletion or substitution
\* away from s
Edits(s) ==
    {SubSeq(s, 1, p) \o <<ch>> \o SubSeq(s, p + 1, Len(s)) :
        p \in 0..Len(s), ch \in EditAlphabet}
    \cup {SubSeq(s, 1, p - 1) \o SubSeq(s, p + 1, Len(s)) : p \in 1..Len(s)}
    \cup {[s EXCEPT ![p] = ch] : p \in 1..Len(s), ch \in EditAlphabet}

RECURSIVE EditsFrom(_, _, _, _)
\* the least number of edits that reach b from the strings of frontier, which
\* are k edits away from the start; seen holds the strings reached so far.
\* Strings of more than MaxEditLen + 1 code points are not passed through.
EditsFrom(seen, frontier, b, k) ==
    IF b \in frontier THEN k
    ELSE LET next == {s \in UNION {Edits(f) : f \in frontier} :
                         Len(s) <= MaxEditLen + 1 /\ s \notin seen}
         IN  EditsFrom(seen \cup next, next, b, k + 1)

\* the least number of edits that turn a into b
MinEdits(a, b) == EditsFrom({a}, {a}, b, 0)

\* C26: levenshtein(a, b) is the least number of single-code-point
\* insertions, deletions and substitutions that turn a into b; so
\* levenshtein(a, "") = levenshtein("", a) = len(a) and levenshtein(a, a) = 0.
C26_LevenshteinIsMinEdits ==
    LevDone =>
        /\ Distance = MinEdits(predicted, ground_truth)
        /\ (ground_truth = <<>>) => Distance = Len(predicted)
        /\ (predicted = <<>>) => Distance = Len(ground_truth)
        /\ (predicted = ground_truth) => Distance = 0

\* levenshtein has returned 2 for "aab" and "ba": one substitution and one
\* deletion, and no single edit, turn the first into the second
C26_Witness ==
    /\ LevDone
    /\ predicted = <<"a", "a", "b">> /\ ground_truth = <<"b", "a">>
    /\ Distance = 2
    /\ MinEdits(predicted, ground_truth) = 2
    /\ ground_truth \notin Edits(predicted)

-----------------------------------------------------------------------------
(* Properties of preprocess (SpecPreprocess) *)

\* num / den rounded to the nearest integer, halves up
RoundedQuotient(num, den) == (2 * num + den) \div (2 * den)

\* the f32 v is pixel / 127.5 - 1.0, that is (2 * pixel - 255) / 255, to
\* 16 binary places
IsNormalized(v, pixel) ==
    LET exact == 2 * pixel - 255
        mag == IF exact < 0 THEN 0 - exact ELSE exact
    IN  /\ v.neg <=> exact < 0
        /\ v.m # 0 /\ v.e + 16 <= 0
        /\ LET places == v.m \div 2^(0 - v.e - 16)
           IN  /\ places <= (mag * 65536) \div 255 + 1
               /\ places + 1 >= (mag * 65536) \div 255

\* column x of the row of the tensor written last
Element(x) == tensor_row[x + 1]

\* the gray value of the resized image under column x of that row
PixelUnder(x) == resized_pixel(resized, x, pre_y - 1)

C28_TensorInRange ==
    (pre_y > 0) =>
        \A x \in 0..1023 :
            LET v == Element(x)
            IN  /\ v.m = 0 \/ v.e < 1 - F32Bits \/ (v.e = 1 - F32Bits /\ v.m = F32Low)
                /\ (x < new_width) =>
                      /\ IsNormalized(v, PixelUnder(x))
                      /\ (PixelUnder(x) = 0) => v = [neg |-> TRUE, m |-> F32Low, e |-> 1 - F32Bits]
                      /\ (PixelUnder(x) = 255) => v = F32One

\* the first row of a 511 x 32 line whose resized image holds every gray
\* value: 0 is stored as -1.0, 255 as 1.0, 128 as a small positive value, and
\* the last two columns are padding
C28_Witness ==
    /\ pre_y = 1
    /\ pre_image = <<511, 32>> /\ new_width = 1022
    /\ resized.kind = "ramp"
    /\ Element(0) = [neg |-> TRUE, m |-> F32Low, e |-> 1 - F32Bits]
    /\ Element(255) = F32One
    /\ ~Element(128).neg /\ Element(128).m # 0 /\ Element(128).e < -30
    /\ Element(1023) = F32One

-----------------------------------------------------------------------------
(* Properties of get_model_path (SpecModel) *)

\* C29: whenever get_model_path has returned Ok(path), the file at path is
\* the whole model, and the last download begun has not failed: after a
\* failed or interrupted download no call returns Ok before a download has
\* written the whole file.
C29_OkMeansWholeModel ==
    (mgr_pc = "ready" /\ mgr_ret # <<>> /\ mgr_ret[Len(mgr_ret)] = "ok") =>
        /\ model_file = WholeFile
        /\ ~mgr_failed

=============================================================================
